---------------------------- MODULE Spec2Model ----------------------------
(***************************************************************************)
(* A model of qemu-kvm-1.2.0/hw/vhost.c: the region table kept for the     *)
(* vhost accelerator, the dirty log buffer and its harvest, and the        *)
(* start / stop / migration-log handlers with the commands they issue.     *)
(*                                                                         *)
(* Handlers run on one thread and never overlap, so each handler is one    *)
(* action; the commands it issued are kept in the history variable trace.  *)
(* Addresses are scaled down: a log page is VHOST_LOG_PAGE bytes, a log    *)
(* word covers VHOST_LOG_BITS pages.                                       *)
(***************************************************************************)
EXTENDS Integers, Sequences, FiniteSets, TLC

VARIABLES
    mem,            \* dev->mem->regions[0 .. nregions-1]
    mem_sections,   \* dev->mem_sections[0 .. n_mem_sections-1]
    log,            \* the words of dev->log (<<>> when dev->log is NULL)
    log_base,       \* the address of dev->log, 0 for NULL
    log_enabled,    \* dev->log_enabled
    started,        \* dev->started
    vqs,            \* dev->vqs: the host-side state of each virtqueue
    acc,            \* what the accelerator was last told (the kernel's view)
    trace,          \* history: what the last handler call did, in order
    last,           \* history: the last handler call, its inputs and result
    aborted,        \* an assert() failed or abort() was called
    sync            \* the call of vhost_dev_sync_region that is under way, when
                    \* its steps are taken one by one

vars == <<mem, mem_sections, log, log_base, log_enabled, started, vqs, acc,
          trace, last, aborted, sync>>

(***************************************************************************)
(* Bounds of the model.                                                    *)
(***************************************************************************)
\* guest-physical addresses used by the region-table specification: 0 .. MaxGpa
MaxGpa == 4
\* entries of dev->mem_sections
MaxSections == 2
\* bits the accelerator leaves set in the log at any one time
MaxDirty == 2
\* bits the accelerator sets while calls of vhost_dev_sync_region are stepped
MaxSets == 2
\* calls of vhost_dev_sync_region that are stepped
MaxSyncCalls == 2

(***************************************************************************)
(* Program constants, scaled down.                                         *)
(***************************************************************************)
\* dev->nvqs: the queues of the device (vhost-net has two, rx and tx)
NVqs == 2
\* bytes of guest memory per log bit
VHOST_LOG_PAGE == 2
\* bits per log word (8 * sizeof(vhost_log_chunk_t))
VHOST_LOG_BITS == 2
\* bytes of guest memory per log word
VHOST_LOG_CHUNK == VHOST_LOG_PAGE * VHOST_LOG_BITS
\* the extra words vhost_set_memory allocates when it grows the log
VHOST_LOG_BUFFER == 1
\* the largest uint64_t / target_phys_addr_t value
UINT64_MAX == (2 ^ 10) - 1

U64(x) == x % (UINT64_MAX + 1)

(***************************************************************************)
(* range.h                                                                 *)
(***************************************************************************)
range_get_last(offset, len) == offset + len - 1

ranges_overlap(first1, len1, first2, len2) ==
    LET last1 == range_get_last(first1, len1)
        last2 == range_get_last(first2, len2)
    IN  ~(last2 < first1 \/ last1 < first2)

MIN(a, b) == IF a < b THEN a ELSE b

MAX(a, b) == IF a > b THEN a ELSE b

(***************************************************************************)
(* struct vhost_memory_region, and the array dev->mem->regions.  Slot i of *)
(* the C array is element i+1 of the sequence.                             *)
(***************************************************************************)
Region(g, s, u) == [guest_phys_addr |-> g, memory_size |-> s, userspace_addr |-> u]

\* regions[i] = v; a write one past the end grows the sequence
SetAt(regions, i, v) ==
    IF i < Len(regions) THEN [regions EXCEPT ![i + 1] = v] ELSE Append(regions, v)

(***************************************************************************)
(* vhost_dev_unassign_memory.  st is the state of the loop: the array, to, *)
(* dev->mem->nregions, the four sanity counters and the assert that failed.*)
(***************************************************************************)
\* a region that starts where the range starts is not taken as a whole
UnassignWholeStrict(start_addr, memlast, reg, reglast) ==
    start_addr < reg.guest_phys_addr /\ memlast >= reglast

\* the "Remove whole region" test
UnassignWhole(start_addr, memlast, reg, reglast) ==
    start_addr <= reg.guest_phys_addr /\ memlast >= reglast

\* the size left to a region whose tail is removed
UnassignShrinkSize(start_addr, reg) == start_addr - reg.guest_phys_addr

\* the bytes cut from the head of a region whose head is removed
UnassignShiftChange(memlast, reg) == memlast + 1 - reg.guest_phys_addr

\* the start of a region whose head is removed is not moved
UnassignShiftedKeepsGpa(reg, change) ==
    Region(reg.guest_phys_addr, reg.memory_size - change, reg.userspace_addr + change)

\* lines 157-159: a region whose head is removed
UnassignShifted(reg, change) ==
    Region(reg.guest_phys_addr + change, reg.memory_size - change,
           reg.userspace_addr + change)

\* a split forgets to move the start of the high part
UnassignSplitHighKeepsGpa(reg, change) ==
    Region(reg.guest_phys_addr, reg.memory_size - change, reg.userspace_addr + change)

\* a split forgets to move the host address of the high part
UnassignSplitHighKeepsUaddr(reg, change) ==
    Region(reg.guest_phys_addr + change, reg.memory_size - change, reg.userspace_addr)

\* lines 177-181: the high part a split leaves
UnassignSplitHigh(reg, change) ==
    Region(reg.guest_phys_addr + change, reg.memory_size - change,
           reg.userspace_addr + change)

\* lines 118-121: "clone old region"
CloneRegion(st, from) ==
    IF st.to # from
    THEN [st EXCEPT !.regions = SetAt(@, st.to, st.regions[from + 1])]
    ELSE st

\* lines 145-152: shrink region
UnassignShrink(s0, r1) ==
    IF r1.memory_size = 0 THEN [s0 EXCEPT !.err = "assert(reg->memory_size)"]
    ELSE IF s0.overlap_end # 0 THEN [s0 EXCEPT !.err = "assert(!overlap_end)"]
    ELSE [s0 EXCEPT !.regions = SetAt(@, s0.to, r1), !.overlap_end = @ + 1]

\* lines 154-164: shift region
UnassignShift(s0, r1) ==
    IF r1.memory_size = 0 THEN [s0 EXCEPT !.err = "assert(reg->memory_size)"]
    ELSE IF s0.overlap_start # 0 THEN [s0 EXCEPT !.err = "assert(!overlap_start)"]
    ELSE [s0 EXCEPT !.regions = SetAt(@, s0.to, r1), !.overlap_start = @ + 1]

\* lines 172-185: split region: shrink first part, shift second part
UnassignSplit(s0, n, low, high) ==
    IF low.memory_size = 0 \/ high.memory_size = 0
    THEN [s0 EXCEPT !.err = "assert(reg->memory_size)"]
    ELSE IF s0.nregions # n
    THEN [s0 EXCEPT !.err = "assert(dev->mem->nregions == n)"]
    ELSE [s0 EXCEPT !.regions = SetAt(SetAt(@, n, high), s0.to, low),
                    !.nregions = @ + 1, !.split = @ + 1,
                    !.maxidx = MAX(@, n)]

\* lines 123-185: the region reg in slot to, which s0 holds
UnassignRegion(s0, reg, n, start_addr, size, memlast, reglast) ==
    IF ~ranges_overlap(reg.guest_phys_addr, reg.memory_size, start_addr, size)
    THEN s0
    ELSE IF s0.split # 0 THEN [s0 EXCEPT !.err = "assert(!split)"]
    ELSE IF UnassignWhole(start_addr, memlast, reg, reglast)
    THEN [s0 EXCEPT !.nregions = @ - 1, !.to = @ - 1, !.overlap_middle = @ + 1]
    ELSE IF memlast >= reglast
    THEN UnassignShrink(s0, [reg EXCEPT !.memory_size = UnassignShrinkSize(start_addr, reg)])
    ELSE IF start_addr <= reg.guest_phys_addr
    THEN UnassignShift(s0, UnassignShifted(reg, UnassignShiftChange(memlast, reg)))
    ELSE IF s0.overlap_start # 0 THEN [s0 EXCEPT !.err = "assert(!overlap_start)"]
    ELSE IF s0.overlap_end # 0 THEN [s0 EXCEPT !.err = "assert(!overlap_end)"]
    ELSE IF s0.overlap_middle # 0 THEN [s0 EXCEPT !.err = "assert(!overlap_middle)"]
    ELSE UnassignSplit(s0, n,
                       [reg EXCEPT !.memory_size = start_addr - reg.guest_phys_addr],
                       UnassignSplitHigh(reg, memlast + 1 - reg.guest_phys_addr))

UnassignCloned(s0, n, start_addr, size) ==
    UnassignRegion(s0, s0.regions[s0.to + 1], n, start_addr, size,
                   range_get_last(start_addr, size),
                   range_get_last(s0.regions[s0.to + 1].guest_phys_addr,
                                  s0.regions[s0.to + 1].memory_size))

UnassignBody(st, from, n, start_addr, size) ==
    UnassignCloned(CloneRegion(st, from), n, start_addr, size)

RECURSIVE UnassignLoop(_, _, _, _, _)
UnassignLoop(st, from, n, start_addr, size) ==
    IF from >= n \/ st.err # "none" THEN st
    ELSE UnassignLoop([UnassignBody(st, from, n, start_addr, size) EXCEPT !.to = @ + 1],
                      from + 1, n, start_addr, size)

\* the result: [regions: the first nregions slots, err, maxidx: the highest
\* slot written past the old end (-1 when none)]
UnassignDone(st, regions) ==
    [regions |-> IF st.err = "none" THEN SubSeq(st.regions, 1, st.nregions)
                 ELSE regions,
     err |-> st.err, maxidx |-> st.maxidx]

vhost_dev_unassign_memory(regions, start_addr, size) ==
    UnassignDone(UnassignLoop([regions |-> regions, to |-> 0, nregions |-> Len(regions),
                               overlap_start |-> 0, overlap_end |-> 0,
                               overlap_middle |-> 0, split |-> 0, err |-> "none",
                               maxidx |-> -1],
                              0, Len(regions), start_addr, size),
                 regions)

(***************************************************************************)
(* vhost_dev_assign_memory.  merged is the slot of the region that took    *)
(* the new range, -1 while there is none.                                  *)
(***************************************************************************)
\* only a region that ends where the new range starts is merged
AssignAdjacentLeftOnly(reg, start_addr, size, uaddr) ==
    /\ range_get_last(reg.guest_phys_addr, reg.memory_size) + 1 = start_addr
    /\ range_get_last(reg.userspace_addr, reg.memory_size) + 1 = uaddr

\* "Not an adjacent or overlapping region - do not merge" negated
AssignAdjacent(reg, start_addr, size, uaddr) ==
    LET prlast == range_get_last(reg.guest_phys_addr, reg.memory_size)
        pmlast == range_get_last(start_addr, size)
        urlast == range_get_last(reg.userspace_addr, reg.memory_size)
        umlast == range_get_last(uaddr, size)
    IN  ~( (prlast + 1 # start_addr \/ urlast + 1 # uaddr)
           /\ (pmlast + 1 # reg.guest_phys_addr \/ umlast + 1 # reg.userspace_addr) )

\* lines 221-233: the region in slot to is merged with the new range
AssignMerge(s0, reg, to1, mg, u, s_, e) ==
    IF to1 < 0 THEN [s0 EXCEPT !.err = "assert(to >= 0)"]
    ELSE IF e - s_ + 1 = 0 THEN [s0 EXCEPT !.err = "assert(merged->memory_size)"]
    ELSE [s0 EXCEPT !.to = to1, !.merged = mg,
                    !.regions = SetAt(@, mg, Region(s_, e - s_ + 1, u)),
                    !.uaddr = u, !.start_addr = s_, !.size = e - s_ + 1]

\* lines 207-233: the region reg in slot to, which s0 holds
AssignRegion(s0, reg, prlast, pmlast) ==
    IF ~(prlast < s0.start_addr \/ pmlast < reg.guest_phys_addr)
    THEN [s0 EXCEPT !.err = "assert(prlast < start_addr || pmlast < reg->guest_phys_addr)"]
    ELSE IF ~AssignAdjacent(reg, s0.start_addr, s0.size, s0.uaddr) THEN s0
    ELSE AssignMerge(s0, reg,
                     IF s0.merged >= 0 THEN s0.to - 1 ELSE s0.to,
                     IF s0.merged >= 0 THEN s0.merged ELSE s0.to,
                     MIN(s0.uaddr, reg.userspace_addr),
                     MIN(s0.start_addr, reg.guest_phys_addr),
                     MAX(pmlast, prlast))

AssignCloned(s0) ==
    AssignRegion(s0, s0.regions[s0.to + 1],
                 range_get_last(s0.regions[s0.to + 1].guest_phys_addr,
                                s0.regions[s0.to + 1].memory_size),
                 range_get_last(s0.start_addr, s0.size))

AssignBody(st, from) == AssignCloned(CloneRegion(st, from))

RECURSIVE AssignLoop(_, _, _)
AssignLoop(st, from, n) ==
    IF from >= n \/ st.err # "none" THEN st
    ELSE AssignLoop([AssignBody(st, from) EXCEPT !.to = @ + 1], from + 1, n)

\* lines 236-246: the new range is appended unless a region took it
AssignAppend(st, regions, n, app) ==
    IF st.err # "none" THEN [regions |-> regions, err |-> st.err, maxidx |-> -1]
    ELSE IF app /\ st.size = 0
    THEN [regions |-> regions, err |-> "assert(reg->memory_size)", maxidx |-> st.to]
    ELSE IF ~((IF app THEN st.to + 1 ELSE st.to) <= n + 1)
    THEN [regions |-> regions, err |-> "assert(to <= dev->mem->nregions + 1)",
          maxidx |-> IF app THEN st.to ELSE -1]
    ELSE [regions |-> IF app
                      THEN SubSeq(SetAt(st.regions, st.to,
                                        Region(st.start_addr, st.size, st.uaddr)),
                                  1, st.to + 1)
                      ELSE SubSeq(st.regions, 1, st.to),
          err |-> "none", maxidx |-> IF app THEN st.to ELSE -1]

AssignDone(st, regions) == AssignAppend(st, regions, Len(regions), st.merged < 0)

vhost_dev_assign_memory(regions, start_addr, size, uaddr) ==
    AssignDone(AssignLoop([regions |-> regions, to |-> 0, merged |-> -1,
                           start_addr |-> start_addr, size |-> size, uaddr |-> uaddr,
                           err |-> "none"], 0, Len(regions)),
               regions)

(***************************************************************************)
(* The collaborators: the memory sections the memory listener reports and  *)
(* the rings the virtio queues report.                                     *)
(***************************************************************************)
Sec(gpa, size, ram, owr, logging, is_ram) ==
    [offset_within_address_space |-> gpa, size |-> size, ram |-> ram,
     offset_within_region |-> owr, logging |-> logging, is_ram |-> is_ram]

\* ram is memory_region_get_ram_ptr(section->mr) + section->offset_within_region
SectionTable ==
    << Sec(0, 4, 100, 0, FALSE, TRUE),
       Sec(4, 8, 104, 4, FALSE, TRUE),
       Sec(4, 4, 200, 0, FALSE, TRUE),
       Sec(8, 4, 108, 8, TRUE, TRUE) >>

SectionIds == 1 .. Len(SectionTable)

\* virtio_queue_get_used_addr / _used_size / _ring_addr / _ring_size
VqUsedPhys(idx) == VHOST_LOG_CHUNK * idx + VHOST_LOG_PAGE

VqUsedSize(idx) == VHOST_LOG_PAGE

VqRingPhys(idx) == VHOST_LOG_CHUNK * idx

VqRingSize(idx) == VHOST_LOG_CHUNK

(***************************************************************************)
(* The state after vhost_dev_init, and of a device never started.          *)
(***************************************************************************)
VqZero == [maps |-> {}, used_phys |-> 0, used_size |-> 0,
           ring_phys |-> 0, ring_size |-> 0]

AccVringZero == [addr |-> FALSE, log |-> FALSE]

AccZero == [log_all |-> FALSE, mem |-> <<>>, pushed |-> FALSE, log_base |-> 0,
            guest_notifiers |-> FALSE,
            vring |-> [i \in 0 .. NVqs - 1 |-> AccVringZero]]

LastZero == [op |-> "init", ret |-> 0, oob |-> FALSE, err |-> "none"]

\* no call of vhost_dev_sync_region is under way
SyncIdle == [pc |-> "idle", from |-> 0, to |-> 0, seen |-> {}, log |-> {},
             sec |-> 0, start |-> 0, calls |-> 0]

Init ==
    /\ mem = <<>>
    /\ mem_sections = <<>>
    /\ log = <<>>
    /\ log_base = 0
    /\ log_enabled = FALSE
    /\ started = FALSE
    /\ vqs = [i \in 0 .. NVqs - 1 |-> VqZero]
    /\ acc = AccZero
    /\ trace = <<>>
    /\ last = LastZero
    /\ aborted = FALSE
    /\ sync = SyncIdle

(***************************************************************************)
(* The device while a handler runs: the variables, plus the calls made so  *)
(* far (calls), the call that fails (fault: its ordinal among the calls    *)
(* that can fail, 0 for none), whether the first call of an unwind fails   *)
(* too (ufault), whether a map that fails returns a short mapping (short), *)
(* the result of the last call (ok), the handler's return                  *)
(* value (ret), the assert that failed (err) and whether a region was      *)
(* written outside the array (oob).                                        *)
(***************************************************************************)
Dev(fault, ufault) ==
    [mem |-> mem, mem_sections |-> mem_sections, log |-> log, log_base |-> log_base,
     log_enabled |-> log_enabled, started |-> started, vqs |-> vqs, acc |-> acc,
     trace |-> <<>>, calls |-> 0, fault |-> fault, ufault |-> ufault, short |-> FALSE,
     ok |-> TRUE, ret |-> 0, err |-> "none", oob |-> FALSE]

\* the same, the call that fails being a cpu_physical_memory_map that returns
\* a mapping shorter than asked for instead of NULL
DevShort(fault) == [Dev(fault, FALSE) EXCEPT !.short = TRUE]

\* an entry of trace: the call, the queue or section it is for, its argument,
\* whether it succeeded, and what was observed of the device when it was made
EvObs(op, idx, arg, ok, obs) ==
    [op |-> op, idx |-> idx, arg |-> arg, ok |-> ok, obs |-> obs]

Ev(op, idx, arg, ok) == EvObs(op, idx, arg, ok, <<>>)

B(b) == IF b THEN 1 ELSE 0

Note(d, op, idx, arg) == [d EXCEPT !.trace = Append(@, Ev(op, idx, arg, TRUE))]

\* what a successful command changes in the accelerator (and the binding)
AccApply(a, d, op, idx, arg) ==
    CASE op = "SetFeatures"  -> [a EXCEPT !.log_all = (arg = 1)]
      [] op = "SetMemTable"  -> [a EXCEPT !.mem = d.mem, !.pushed = TRUE]
      [] op = "SetLogBase"   -> [a EXCEPT !.log_base = arg]
      [] op = "SetVringAddr" -> [a EXCEPT !.vring[idx].addr = TRUE,
                                          !.vring[idx].log = (arg = 1)]
      [] op = "set_guest_notifiers" -> [a EXCEPT !.guest_notifiers = (arg = 1)]
      [] OTHER -> a

\* an ioctl, a map or a binding call whose result the code looks at
Ioctl(d, op, idx, arg) ==
    LET n  == d.calls + 1
        ok == n # d.fault
    IN  [d EXCEPT !.calls = n, !.ok = ok,
                  !.trace = Append(@, Ev(op, idx, arg, ok)),
                  !.acc = IF ok THEN AccApply(@, d, op, idx, arg) ELSE @]

\* the same on an unwind path
IoctlU(d, op, idx, arg) ==
    LET ok == ~d.ufault
    IN  [d EXCEPT !.ok = ok, !.ufault = FALSE,
                  !.trace = Append(@, Ev(op, idx, arg, ok)),
                  !.acc = IF ok THEN AccApply(@, d, op, idx, arg) ELSE @]

Fail(d, what) == [d EXCEPT !.err = what]

(***************************************************************************)
(* vhost_dev_sync_region, vhost_sync_dirty_bitmap, vhost_log_sync          *)
(***************************************************************************)
RECURSIVE BitsInOrder(_)
BitsInOrder(S) ==
    IF S = {} THEN <<>>
    ELSE LET b == CHOOSE x \in S : \A y \in S : x <= y
         IN  <<b>> \o BitsInOrder(S \ {b})

\* line 58: the address memory_region_set_dirty is given for a set bit
DirtyRamAddr(section, addr, bit) ==
    section.offset_within_region + bit * VHOST_LOG_PAGE

\* lines 53-61: the set bits of a word, fetched and zeroed, are reported; for
\* the history each report carries addr, the bit and the start of the range
HarvestBits(d, sec, w, bits, start) ==
    [d EXCEPT !.log[w + 1] = {},
              !.trace = @ \o [k \in 1 .. Len(bits) |->
                  EvObs("dirty", sec,
                        DirtyRamAddr(SectionTable[sec], w * VHOST_LOG_CHUNK, bits[k]), TRUE,
                        <<w * VHOST_LOG_CHUNK, bits[k], start>>)]]

\* lines 45-62: one word of the log
HarvestWord(d, sec, w, start) ==
    IF d.log[w + 1] = {} THEN d
    ELSE HarvestBits(d, sec, w, BitsInOrder(d.log[w + 1]), start)

RECURSIVE SyncWords(_, _, _, _, _)
SyncWords(d, sec, w, wlast, start) ==
    IF w > wlast THEN d
    ELSE SyncWords(HarvestWord(d, sec, w, start), sec, w + 1, wlast, start)

\* history: a range that is not empty, and the size of the log it is read from
ObserveSync(d, sec, start, end) ==
    [d EXCEPT !.trace = Append(@, EvObs("sync", sec, 0, TRUE, <<start, end, Len(d.log)>>))]

\* lines 37-63
SyncChecked(d, sec, start, end) ==
    IF ~(end \div VHOST_LOG_CHUNK < Len(d.log))
    THEN Fail(d, "assert(end / VHOST_LOG_CHUNK < dev->log_size)")
    ELSE IF ~(start \div VHOST_LOG_CHUNK < Len(d.log))
    THEN Fail(d, "assert(start / VHOST_LOG_CHUNK < dev->log_size)")
    ELSE SyncWords(d, sec, start \div VHOST_LOG_CHUNK, end \div VHOST_LOG_CHUNK, start)

\* lines 34-63, start and end being MAX(mfirst, rfirst) and MIN(mlast, rlast)
SyncRange(d, sec, start, end) ==
    IF d.err # "none" \/ end < start THEN d
    ELSE SyncChecked(ObserveSync(d, sec, start, end), sec, start, end)

vhost_dev_sync_region(d, sec, mfirst, mlast, rfirst, rlast) ==
    SyncRange(d, sec, MAX(mfirst, rfirst), MIN(mlast, rlast))

RECURSIVE SyncRegions(_, _, _, _, _)
SyncRegions(d, sec, start_addr, end_addr, i) ==
    IF i >= Len(d.mem) THEN d
    ELSE SyncRegions(vhost_dev_sync_region(d, sec, start_addr, end_addr,
                         d.mem[i + 1].guest_phys_addr,
                         range_get_last(d.mem[i + 1].guest_phys_addr,
                                        d.mem[i + 1].memory_size)),
                     sec, start_addr, end_addr, i + 1)

RECURSIVE SyncVqs(_, _, _, _, _)
SyncVqs(d, sec, start_addr, end_addr, i) ==
    IF i >= NVqs THEN d
    ELSE SyncVqs(vhost_dev_sync_region(d, sec, start_addr, end_addr, d.vqs[i].used_phys,
                     U64(range_get_last(d.vqs[i].used_phys, d.vqs[i].used_size))),
                 sec, start_addr, end_addr, i + 1)

vhost_sync_dirty_bitmap(d, sec, start_addr, end_addr) ==
    IF ~d.log_enabled \/ ~d.started THEN d
    ELSE SyncVqs(SyncRegions(d, sec, start_addr, end_addr, 0),
                 sec, start_addr, end_addr, 0)

\* history: at entry, the pages whose bit is set in the log
ObserveLogSync(d, sec) ==
    [d EXCEPT !.trace = Append(@, EvObs("log_sync", sec, 0, TRUE,
        {w * VHOST_LOG_BITS + b_ : w \in 0 .. Len(d.log) - 1, b_ \in 0 .. VHOST_LOG_BITS - 1}
        \cap {p \in 0 .. Len(d.log) * VHOST_LOG_BITS - 1 :
                 (p % VHOST_LOG_BITS) \in d.log[p \div VHOST_LOG_BITS + 1]}))]

vhost_log_sync(d, sec) ==
    vhost_sync_dirty_bitmap(ObserveLogSync(d, sec), sec,
                            SectionTable[sec].offset_within_address_space,
                            SectionTable[sec].offset_within_address_space
                            + SectionTable[sec].size)

(***************************************************************************)
(* vhost_get_log_size, vhost_dev_log_resize                                *)
(***************************************************************************)
RECURSIVE LogSizeRegions(_, _, _)
\* the size is that of the last region, not the largest
LogSizeRegionsLast(regions, i, log_size) ==
    IF i >= Len(regions) THEN log_size
    ELSE LogSizeRegions(regions, i + 1,
             range_get_last(regions[i + 1].guest_phys_addr,
                            regions[i + 1].memory_size) \div VHOST_LOG_CHUNK + 1)

\* lines 253-258
LogSizeRegions(regions, i, log_size) ==
    IF i >= Len(regions) THEN log_size
    ELSE LogSizeRegions(regions, i + 1,
             MAX(log_size,
                 range_get_last(regions[i + 1].guest_phys_addr,
                                regions[i + 1].memory_size) \div VHOST_LOG_CHUNK + 1))

RECURSIVE LogSizeVqs(_, _, _)
LogSizeVqs(q, i, log_size) ==
    IF i >= NVqs THEN log_size
    ELSE LogSizeVqs(q, i + 1,
             MAX(log_size,
                 U64(q[i].used_phys + q[i].used_size - 1) \div VHOST_LOG_CHUNK + 1))

\* the used rings are not counted
GetLogSizeRegionsOnly(regions, q) == LogSizeRegions(regions, 0, 0)

vhost_get_log_size(regions, q) == LogSizeVqs(q, 0, LogSizeRegions(regions, 0, 0))

\* the pages whose bit is set in a log
DirtyPages(l) ==
    {w * VHOST_LOG_BITS + b : w \in 0 .. Len(l) - 1, b \in 0 .. VHOST_LOG_BITS - 1} \cap
    {p \in 0 .. Len(l) * VHOST_LOG_BITS - 1 :
        (p % VHOST_LOG_BITS) \in l[p \div VHOST_LOG_BITS + 1]}

RECURSIVE ResizeSync(_, _, _)
ResizeSync(d, i, end_addr) ==
    IF i >= Len(d.mem_sections) THEN d
    ELSE ResizeSync(vhost_sync_dirty_bitmap(d, d.mem_sections[i + 1], 0, end_addr),
                    i + 1, end_addr)

\* lines 272-277: newbuf is the address g_malloc0 returns when size is not 0
ResizeAlloc(size, newbuf) == IF size # 0 THEN newbuf ELSE 0

\* line 278, with for the history the size asked for and the bits set in the
\* old log
ResizePush(d, size, base) ==
    Ioctl([d EXCEPT !.trace = Append(@,
               EvObs("log_resize", Len(d.log), size, TRUE, DirtyPages(d.log)))],
          "SetLogBase", 0, base)

\* the sections are synced over every address, as vhost_dev_stop does
ResizeSyncedFullRange(d1) ==
    IF ~d1.ok THEN Fail(d1, "assert(r >= 0)")
    ELSE ResizeSync(d1, 0, UINT64_MAX)

\* lines 279-284
ResizeSynced(d1) ==
    IF ~d1.ok THEN Fail(d1, "assert(r >= 0)")
    ELSE ResizeSync(d1, 0, U64(Len(d1.log) * VHOST_LOG_CHUNK - 1))

\* g_free(dev->log), which does nothing for NULL
FreeLog(d2) == IF d2.log_base # 0 THEN Note(d2, "free", 0, d2.log_base) ELSE d2

\* lines 285-289
ResizeSwap(d2, size, base) ==
    IF d2.err # "none" THEN d2
    ELSE [FreeLog(d2) EXCEPT !.log = [i \in 1 .. size |-> {}], !.log_base = base]

vhost_dev_log_resize(d, size, newbuf) ==
    IF d.err # "none" THEN d
    ELSE ResizeSwap(ResizeSynced(ResizePush(d, size, ResizeAlloc(size, newbuf))),
                    size, ResizeAlloc(size, newbuf))

(***************************************************************************)
(* vhost_verify_ring_mappings, vhost_dev_find_reg, vhost_dev_cmp_memory,   *)
(* vhost_set_memory, vhost_region_add, vhost_region_del                    *)
(***************************************************************************)
\* lines 305-315: the ring is mapped again, and unmapped
VerifyRing(d1, i) ==
    IF ~d1.ok THEN [d1 EXCEPT !.ret = -1] ELSE Note(d1, "unmap", i, 4)

RECURSIVE VerifyRings(_, _, _, _)
VerifyRings(d, start_addr, size, i) ==
    IF i >= NVqs \/ d.ret # 0 THEN d
    ELSE IF ~ranges_overlap(start_addr, size, d.vqs[i].ring_phys, d.vqs[i].ring_size)
    THEN VerifyRings(d, start_addr, size, i + 1)
    ELSE VerifyRings(VerifyRing(Ioctl(d, "map", i, 4), i), start_addr, size, i + 1)

vhost_verify_ring_mappings(d, start_addr, size) == VerifyRings(d, start_addr, size, 0)

\* the least element of a set of numbers
Least(S) == CHOOSE i \in S : \A j \in S : i <= j

\* the slot of the first region that overlaps the range, -1 for NULL
vhost_dev_find_reg(regions, start_addr, size) ==
    IF \A i \in 1 .. Len(regions) :
           ~ranges_overlap(regions[i].guest_phys_addr, regions[i].memory_size,
                           start_addr, size)
    THEN -1
    ELSE Least({i \in 0 .. Len(regions) - 1 :
                   ranges_overlap(regions[i + 1].guest_phys_addr,
                                  regions[i + 1].memory_size, start_addr, size)})

\* only the "Need to extend region?" test is made
CmpRegionExtendOnly(reg, start_addr, size, uaddr) ==
    start_addr < reg.guest_phys_addr
    \/ range_get_last(start_addr, size)
       > range_get_last(reg.guest_phys_addr, reg.memory_size)

\* lines 343-356: reg is the region found
CmpRegion(reg, start_addr, size, uaddr) ==
    IF start_addr < reg.guest_phys_addr
       \/ range_get_last(start_addr, size)
          > range_get_last(reg.guest_phys_addr, reg.memory_size)
    THEN TRUE
    ELSE uaddr # reg.userspace_addr + start_addr - reg.guest_phys_addr

vhost_dev_cmp_memory(regions, start_addr, size, uaddr) ==
    IF vhost_dev_find_reg(regions, start_addr, size) < 0 THEN TRUE
    ELSE CmpRegion(regions[vhost_dev_find_reg(regions, start_addr, size) + 1],
                   start_addr, size, uaddr)

\* the log grows one word too late
NeedGrowLate(cur, log_size) == cur + 1 < log_size

\* line 424: "To log more, must increase log size before table update"
NeedGrow(cur, log_size) == cur < log_size

\* line 430: "To log less, can only decrease log size after table update"
NeedShrink(cur, log_size) == cur > log_size + VHOST_LOG_BUFFER

\* history: before a table is pushed, the words of the log the accelerator
\* has, and the words its old and its new table need
ObserveLog(d) ==
    [d EXCEPT !.trace = Append(@, EvObs("observe", 0, 0, TRUE,
        << IF d.acc.log_base = d.log_base THEN Len(d.log) ELSE 0,
           vhost_get_log_size(d.acc.mem, d.vqs),
           vhost_get_log_size(d.mem, d.vqs) >>))]

\* a call the code asserts to have succeeded
Asserted(d1) == IF ~d1.ok THEN Fail(d1, "assert(r >= 0)") ELSE d1

\* lines 423-426
SetMemoryGrow(d, log_size, newbuf) ==
    IF NeedGrow(Len(d.log), log_size)
    THEN vhost_dev_log_resize(d, log_size + VHOST_LOG_BUFFER, newbuf)
    ELSE d

\* lines 427-428
SetMemoryTable(d1) ==
    IF d1.err # "none" THEN d1
    ELSE Asserted(Ioctl(ObserveLog(d1), "SetMemTable", 0, Len(d1.mem)))

\* lines 429-432
SetMemoryShrink(d2, log_size, newbuf) ==
    IF d2.err # "none" THEN d2
    ELSE IF NeedShrink(Len(d2.log), log_size)
    THEN vhost_dev_log_resize(d2, log_size, newbuf)
    ELSE d2

SetMemoryResized(d, log_size, newbuf) ==
    SetMemoryShrink(SetMemoryTable(SetMemoryGrow(d, log_size, newbuf)), log_size, newbuf)

\* lines 419-432: the table update of a started device that logs
SetMemoryLogged(d, newbuf) ==
    SetMemoryResized(d, vhost_get_log_size(d.mem, d.vqs), newbuf)

\* the changed table is not pushed
SetMemoryPushNothing(d, start_addr, size, newbuf) == d

\* lines 411-432: d1 is the device after vhost_verify_ring_mappings
SetMemoryVerified(d1, newbuf) ==
    IF d1.ret # 0 THEN Fail([d1 EXCEPT !.ret = 0], "assert(r >= 0)")
    ELSE IF ~d1.log_enabled
    THEN Asserted(Ioctl(d1, "SetMemTable", 0, Len(d1.mem)))
    ELSE SetMemoryLogged(d1, newbuf)

\* lines 405-432: what vhost_set_memory does once the table is changed
SetMemoryPush(d, start_addr, size, newbuf) ==
    IF ~d.started THEN d
    ELSE SetMemoryVerified(vhost_verify_ring_mappings(d, start_addr, size), newbuf)

\* lines 397-403: u is the table after the first unassign
SetMemorySecond(u, v) == [v EXCEPT !.maxidx = MAX(@, u.maxidx)]

SetMemoryAssign(u, start_addr, size, add, ram) ==
    IF u.err # "none" THEN u
    ELSE IF add
    THEN SetMemorySecond(u, vhost_dev_assign_memory(u.regions, start_addr, size, ram))
    ELSE SetMemorySecond(u, vhost_dev_unassign_memory(u.regions, start_addr, size))

\* lines 396-403
SetMemoryChange(regions, start_addr, size, add, ram) ==
    SetMemoryAssign(vhost_dev_unassign_memory(regions, start_addr, size),
                    start_addr, size, add, ram)

\* lines 396-432: v is the changed table
SetMemoryChanged(d, v, start_addr, size, newbuf) ==
    IF v.err # "none" THEN Fail(d, v.err)
    ELSE SetMemoryPush([d EXCEPT !.mem = v.regions, !.oob = (v.maxidx > Len(d.mem))],
                       start_addr, size, newbuf)

\* lines 384-394: the "Nothing to do" tests
SetMemoryNop(regions, start_addr, size, add, ram) ==
    IF add THEN ~vhost_dev_cmp_memory(regions, start_addr, size, ram)
    ELSE vhost_dev_find_reg(regions, start_addr, size) < 0

\* lines 376-432: add is the flag after "if (log_dirty) add = false"
SetMemorySection(d, section, add, newbuf) ==
    IF section.size = 0 THEN Fail(d, "assert(size)")
    ELSE IF SetMemoryNop(d.mem, section.offset_within_address_space, section.size,
                         add, section.ram)
    THEN d
    ELSE SetMemoryChanged(d,
             SetMemoryChange(d.mem, section.offset_within_address_space, section.size,
                             add, section.ram),
             section.offset_within_address_space, section.size, newbuf)

vhost_set_memory(d, sec, add0, newbuf) ==
    SetMemorySection(d, SectionTable[sec],
                     IF SectionTable[sec].logging THEN FALSE ELSE add0, newbuf)

vhost_section(section) == section.is_ram

vhost_region_add(d, sec, newbuf) ==
    IF ~vhost_section(SectionTable[sec]) THEN d
    ELSE vhost_set_memory([d EXCEPT !.mem_sections = Append(@, sec)], sec, TRUE, newbuf)

\* lines 478-486: drop the first tracked section that starts where this one does
DropSection(sections, sec) ==
    IF \A i \in 1 .. Len(sections) :
           SectionTable[sections[i]].offset_within_address_space
           # SectionTable[sec].offset_within_address_space
    THEN sections
    ELSE [k \in 1 .. Len(sections) - 1 |->
             IF k < Least({i \in 1 .. Len(sections) :
                              SectionTable[sections[i]].offset_within_address_space
                              = SectionTable[sec].offset_within_address_space})
             THEN sections[k] ELSE sections[k + 1]]

\* lines 478-486, d1 being the device after vhost_set_memory
RegionDelDrop(d1, sec) ==
    IF d1.err # "none" THEN d1 ELSE [d1 EXCEPT !.mem_sections = DropSection(@, sec)]

vhost_region_del(d, sec, newbuf) ==
    IF ~vhost_section(SectionTable[sec]) THEN d
    ELSE RegionDelDrop(vhost_set_memory(d, sec, FALSE, newbuf), sec)

(***************************************************************************)
(* vhost_virtqueue_set_addr, vhost_dev_set_features, vhost_dev_set_log,    *)
(* vhost_migration_log, vhost_log_global_start / _stop                     *)
(***************************************************************************)
\* history: when a queue's addresses are pushed, the log base the accelerator
\* has, the address and the size of the log, and the size the log must have
ObserveBase(d) ==
    <<d.acc.log_base, d.log_base, Len(d.log), vhost_get_log_size(d.mem, d.vqs)>>

WithObs(d1, obs) == [d1 EXCEPT !.trace[Len(d1.trace)].obs = obs]

vhost_virtqueue_set_addr(d, idx, enable_log) ==
    WithObs(Ioctl(d, "SetVringAddr", idx, B(enable_log)), ObserveBase(d))

vhost_dev_set_features(d, enable_log) == Ioctl(d, "SetFeatures", 0, B(enable_log))

\* line 540: the first queue the err_vq loop pushes again, i being the queue
\* whose push failed
SetLogUnwindFrom(i) == i

\* a call of the unwinding, asserted to succeed
AssertedT(d1) == IF ~d1.ok THEN Fail(d1, "assert(t >= 0)") ELSE d1

\* lines 544-547: the features are pushed again, and r is returned
SetLogUnwindFeatures(d1) ==
    IF ~d1.ok THEN Fail(d1, "assert(t >= 0)") ELSE [d1 EXCEPT !.ret = -1]

\* lines 539-547: err_vq
RECURSIVE SetLogUnwind(_, _)
SetLogUnwind(d, i) ==
    IF d.err # "none" THEN d
    ELSE IF i < 0
    THEN SetLogUnwindFeatures(IoctlU(d, "SetFeatures", 0, B(d.log_enabled)))
    ELSE SetLogUnwind(AssertedT(WithObs(IoctlU(d, "SetVringAddr", i, B(d.log_enabled)),
                                        ObserveBase(d))), i - 1)

RECURSIVE SetLogVqs(_, _, _)
\* lines 533-537: d1 is the device after the push for queue i
SetLogPushed(d1, i, enable_log) ==
    IF ~d1.ok THEN SetLogUnwind(d1, SetLogUnwindFrom(i))
    ELSE SetLogVqs(d1, i + 1, enable_log)

SetLogVqs(d, i, enable_log) ==
    IF i >= NVqs THEN [d EXCEPT !.ret = 0]
    ELSE SetLogPushed(vhost_virtqueue_set_addr(d, i, enable_log), i, enable_log)

\* the result of vhost_dev_set_features, as vhost_dev_set_log returns it
SetLogFeatures(d1) == IF ~d1.ok THEN [d1 EXCEPT !.ret = -1] ELSE d1

\* the features are pushed once the queues are
SetLogFeaturesLast(d1, enable_log) ==
    IF d1.err # "none" \/ d1.ret < 0 THEN d1
    ELSE SetLogFeatures(vhost_dev_set_features(d1, enable_log))

\* the queues are pushed before the features
SetLogPushQueuesFirst(d, enable_log) ==
    SetLogFeaturesLast(SetLogVqs(d, 0, enable_log), enable_log)

\* lines 531-547: the queues are pushed once the features are
SetLogQueues(d1, enable_log) ==
    IF d1.ret < 0 THEN d1 ELSE SetLogVqs(d1, 0, enable_log)

\* lines 527-537: the order in which the features and the queues are pushed
SetLogPush(d, enable_log) ==
    SetLogQueues(SetLogFeatures(vhost_dev_set_features(d, enable_log)), enable_log)

\* history: at entry, log_enabled, the accelerator's F_LOG_ALL and the queues
\* whose LOG flag it has
ObserveFlags(d) ==
    [d EXCEPT !.trace = Append(@, EvObs("set_log", 0, 0, TRUE,
        << d.log_enabled, d.acc.log_all,
           {i \in 0 .. NVqs - 1 : d.acc.vring[i].log} >>))]

vhost_dev_set_log(d, enable_log) == SetLogPush(ObserveFlags(d), enable_log)

\* the used rings of the queues are forgotten
EnableLogSizeRegionsOnly(d) == LogSizeRegions(d.mem, 0, 0)

\* line 574: the size of the log a running device is given when logging starts
EnableLogSize(d) == vhost_get_log_size(d.mem, d.vqs)

\* lines 567-571: the log is freed
DisableFree(d1) ==
    IF d1.err # "none" \/ d1.ret < 0 THEN d1
    ELSE [FreeLog(d1) EXCEPT !.log = <<>>, !.log_base = 0, !.log_enabled = FALSE]

\* the log base is withdrawn
DisableWithdraw(d1) ==
    IF d1.err # "none" \/ d1.ret < 0 THEN d1 ELSE Ioctl(d1, "SetLogBase", 0, 0)

\* the log base is withdrawn before the log is freed
MigrationLogDisableWithdraws(d) ==
    DisableFree(DisableWithdraw(vhost_dev_set_log(d, FALSE)))

\* lines 563-572: logging is switched off on a running device
MigrationLogDisable(d) == DisableFree(vhost_dev_set_log(d, FALSE))

\* lines 575-580: d2 is the device after vhost_dev_set_log
EnableDone(d2) ==
    IF d2.err # "none" \/ d2.ret < 0 THEN d2 ELSE [d2 EXCEPT !.log_enabled = TRUE]

\* line 575: d1 is the device after vhost_dev_log_resize
EnableSetLog(d1) == IF d1.err # "none" THEN d1 ELSE vhost_dev_set_log(d1, TRUE)

\* lines 573-580: logging is switched on on a running device
MigrationLogEnable(d, newbuf) ==
    EnableDone(EnableSetLog(vhost_dev_log_resize(d, EnableLogSize(d), newbuf)))

vhost_migration_log(d, enable, newbuf) ==
    IF enable = d.log_enabled THEN d
    ELSE IF ~d.started THEN [d EXCEPT !.log_enabled = enable]
    ELSE IF ~enable THEN MigrationLogDisable(d)
    ELSE MigrationLogEnable(d, newbuf)

\* lines 587-591, 597-601: abort() on failure
LogGlobalAbort(d1) == IF d1.err = "none" /\ d1.ret < 0 THEN Fail(d1, "abort()") ELSE d1

\* vhost_log_global_start and vhost_log_global_stop
vhost_log_global(d, enable, newbuf) == LogGlobalAbort(vhost_migration_log(d, enable, newbuf))

(***************************************************************************)
(* vhost_virtqueue_init, vhost_virtqueue_cleanup                           *)
(***************************************************************************)
\* lines 645-646 (and 652, 659, 667): the pointer returned is stored whatever
\* the length mapped, so that a mapping that is too short stays with the queue
Mapped(d1, idx, a) ==
    IF d1.ok THEN [d1 EXCEPT !.vqs[idx].maps = @ \cup {a}]
    ELSE IF d1.short THEN [Note(d1, "short", idx, a) EXCEPT !.vqs[idx].maps = @ \cup {a}]
    ELSE d1

\* cpu_physical_memory_map of area a (1 desc, 2 avail, 3 used, 4 ring)
MapArea(d, idx, a) == Mapped(Ioctl(d, "map", idx, a), idx, a)

UnmapArea(d, idx, a) ==
    [Note(d, "unmap", idx, a) EXCEPT !.vqs[idx].maps = @ \ {a}]

\* the fail_* labels: unmap areas a, a-1, .. 1
RECURSIVE InitUnmap(_, _, _)
InitUnmap(d, idx, a) ==
    IF a < 1 THEN [d EXCEPT !.ret = -1] ELSE InitUnmap(UnmapArea(d, idx, a), idx, a - 1)

\* lines 686-692
InitCall(d3, idx) == IF ~d3.ok THEN InitUnmap(d3, idx, 4) ELSE [d3 EXCEPT !.ret = 0]

\* lines 679-692
InitKick(d2, idx) ==
    IF ~d2.ok THEN InitUnmap(d2, idx, 4)
    ELSE InitCall(Ioctl(d2, "SetVringCall", idx, 0), idx)

\* lines 674-692
InitAddr(d1, idx) ==
    IF ~d1.ok THEN InitUnmap(d1, idx, 4)
    ELSE InitKick(Ioctl(d1, "SetVringKick", idx, 0), idx)

\* lines 673-692: the addresses and the two notifiers
InitPush(d, idx) == InitAddr(vhost_virtqueue_set_addr(d, idx, d.log_enabled), idx)

\* lines 657-658, 665-666: the used ring, or the whole ring, as virtio reports it
InitUsed(d, idx) ==
    [d EXCEPT !.vqs[idx].used_size = VqUsedSize(idx), !.vqs[idx].used_phys = VqUsedPhys(idx)]

InitRing(d, idx) ==
    [d EXCEPT !.vqs[idx].ring_size = VqRingSize(idx), !.vqs[idx].ring_phys = VqRingPhys(idx)]

\* lines 668-692
InitMap4(d4, idx) == IF ~d4.ok THEN InitUnmap(d4, idx, 3) ELSE InitPush(d4, idx)

\* lines 660-692
InitMap3(d3, idx) ==
    IF ~d3.ok THEN InitUnmap(d3, idx, 2)
    ELSE InitMap4(MapArea(InitRing(d3, idx), idx, 4), idx)

\* lines 653-692
InitMap2(d2, idx) ==
    IF ~d2.ok THEN InitUnmap(d2, idx, 1)
    ELSE InitMap3(MapArea(InitUsed(d2, idx), idx, 3), idx)

\* lines 646-692
InitMap1(d1, idx) ==
    IF ~d1.ok THEN InitUnmap(d1, idx, 0) ELSE InitMap2(MapArea(d1, idx, 2), idx)

\* lines 643-692: the four mappings
InitMap(d, idx) == InitMap1(MapArea(d, idx, 1), idx)

\* lines 638-692
InitBase(d2, idx) == IF ~d2.ok THEN [d2 EXCEPT !.ret = -1] ELSE InitMap(d2, idx)

\* lines 632-692
InitNum(d1, idx) ==
    IF ~d1.ok THEN [d1 EXCEPT !.ret = -1]
    ELSE InitBase(Ioctl(d1, "SetVringBase", idx, 0), idx)

vhost_virtqueue_init(d, idx) == InitNum(Ioctl(d, "SetVringNum", idx, 0), idx)

\* lines 727-735: the assert, and the four unmappings
CleanupUnmap(d1, idx) ==
    IF ~d1.ok THEN Fail(d1, "assert (r >= 0)")
    ELSE UnmapArea(UnmapArea(UnmapArea(UnmapArea(d1, idx, 4), idx, 3), idx, 2), idx, 1)

\* unwinding is TRUE when vhost_dev_start calls it on its failure path
vhost_virtqueue_cleanup(d, idx, unwinding) ==
    IF d.err # "none" THEN d
    ELSE IF unwinding THEN CleanupUnmap(IoctlU(d, "GetVringBase", idx, 0), idx)
    ELSE CleanupUnmap(Ioctl(d, "GetVringBase", idx, 0), idx)

(***************************************************************************)
(* vhost_dev_start, vhost_dev_stop                                         *)
(***************************************************************************)
\* the queues already bound are left as they are
StartCleanupNone(d, i) == d

\* lines 922-929: fail_log, fail_vq: clean up queues i-1 .. 0
RECURSIVE StartCleanup(_, _)
StartCleanup(d, i) ==
    IF i - 1 < 0 THEN d
    ELSE StartCleanup(vhost_virtqueue_cleanup(d, i - 1, TRUE), i - 1)

\* lines 930-935: fail_mem, fail_features: the guest notifiers are switched off
StartFailNotifiers(d) ==
    IF d.err # "none" THEN d
    ELSE [IoctlU(d, "set_guest_notifiers", 0, 0) EXCEPT !.ret = -1]

\* a log is allocated and pushed at every start
StartWithLogAlways(d) == TRUE

\* line 907: whether vhost_dev_start allocates and pushes a log
StartWithLog(d) == d.log_enabled

\* lines 913-921: d1 is the device after VHOST_SET_LOG_BASE
StartLogPushed(d1) ==
    IF ~d1.ok THEN StartFailNotifiers(StartCleanup(d1, NVqs))
    ELSE [d1 EXCEPT !.started = TRUE, !.ret = 0]

\* the base is pushed before hdev->log is set: the old address is pushed
StartLogAllocPushesOld(d, log_size, base) ==
    Ioctl([(IF log_size # 0 THEN Note(d, "alloc", log_size, base) ELSE d)
              EXCEPT !.log = [i \in 1 .. log_size |-> {}], !.log_base = base],
          "SetLogBase", 0, d.log_base)

\* lines 908-912: the log is allocated and its base pushed
StartLogAlloc(d, log_size, base) ==
    Ioctl([(IF log_size # 0 THEN Note(d, "alloc", log_size, base) ELSE d)
              EXCEPT !.log = [i \in 1 .. log_size |-> {}], !.log_base = base],
          "SetLogBase", 0, base)

\* lines 907-921
StartLog(d, newbuf) ==
    IF ~StartWithLog(d) THEN [d EXCEPT !.started = TRUE, !.ret = 0]
    ELSE StartLogPushed(StartLogAlloc(d, vhost_get_log_size(d.mem, d.vqs),
                            ResizeAlloc(vhost_get_log_size(d.mem, d.vqs), newbuf)))

RECURSIVE StartVqs(_, _, _)
\* lines 902-904: d1 is the device after vhost_virtqueue_init for queue i
StartVqDone(d1, i, newbuf) ==
    IF d1.ret < 0 THEN StartFailNotifiers(StartCleanup(d1, i))
    ELSE StartVqs(d1, i + 1, newbuf)

\* lines 897-921
StartVqs(d, i, newbuf) ==
    IF i >= NVqs THEN StartLog(d, newbuf)
    ELSE StartVqDone(vhost_virtqueue_init(d, i), i, newbuf)

\* lines 893-921: d3 is the device after VHOST_SET_MEM_TABLE
StartMem(d3, newbuf) == IF ~d3.ok THEN StartFailNotifiers(d3) ELSE StartVqs(d3, 0, newbuf)

\* lines 889-921: d2 is the device after vhost_dev_set_features
StartFeatures(d2, newbuf) ==
    IF ~d2.ok THEN StartFailNotifiers(d2)
    ELSE StartMem(Ioctl(d2, "SetMemTable", 0, Len(d2.mem)), newbuf)

\* lines 883-921: d1 is the device after set_guest_notifiers(true)
StartNotifiers(d1, newbuf) ==
    IF ~d1.ok THEN [d1 EXCEPT !.ret = -1]
    ELSE StartFeatures(vhost_dev_set_features(d1, d1.log_enabled), newbuf)

vhost_dev_start(d, newbuf) ==
    StartNotifiers(Ioctl(d, "set_guest_notifiers", 0, 1), newbuf)

RECURSIVE StopCleanup(_, _)
StopCleanup(d, i) ==
    IF i >= NVqs THEN d ELSE StopCleanup(vhost_virtqueue_cleanup(d, i, FALSE), i + 1)

RECURSIVE StopSync(_, _)
StopSync(d, i) ==
    IF i >= Len(d.mem_sections) THEN d
    ELSE StopSync(vhost_sync_dirty_bitmap(d, d.mem_sections[i + 1], 0, UINT64_MAX), i + 1)

\* lines 958-963: d2 is the device after set_guest_notifiers(false)
StopFree(d2) ==
    IF ~d2.ok THEN Fail(d2, "assert (r >= 0)")
    ELSE [FreeLog(d2) EXCEPT !.started = FALSE, !.log = <<>>, !.log_base = 0]

\* lines 953-963: d1 is the device after the cleanups and the final sync
StopNotifiers(d1) ==
    IF d1.err # "none" THEN d1 ELSE StopFree(Ioctl(d1, "set_guest_notifiers", 0, 0))

\* history: at entry, the pages whose bit is set in the log
ObserveStop(d) ==
    [d EXCEPT !.trace = Append(@, EvObs("stop", 0, 0, TRUE, DirtyPages(d.log)))]

\* the guest notifiers are switched off and the log freed before the harvest
StopSyncsLast(d) == StopSync(StopNotifiers(StopCleanup(ObserveStop(d), 0)), 0)

vhost_dev_stop(d) == StopNotifiers(StopSync(StopCleanup(ObserveStop(d), 0), 0))

(***************************************************************************)
(* The handlers as actions.  Each takes the device as it is, runs the      *)
(* handler to its return (or to the assert that fails) and stores what it  *)
(* left, with the calls it made in trace.                                  *)
(***************************************************************************)
Commit(d, op) ==
    /\ mem' = d.mem
    /\ mem_sections' = d.mem_sections
    /\ log' = d.log
    /\ log_base' = d.log_base
    /\ log_enabled' = d.log_enabled
    /\ started' = d.started
    /\ vqs' = d.vqs
    /\ acc' = d.acc
    /\ trace' = d.trace
    /\ last' = [op |-> op, ret |-> d.ret, oob |-> d.oob, err |-> d.err]
    /\ aborted' = (d.err # "none")
    /\ sync' = sync

\* the ways the calls of one handler can fail: <<the ordinal of the call that
\* fails, whether the first call of the unwinding fails too>>
NoFault == {<<0, FALSE>>}

Faults(n) == NoFault \cup ((1 .. n) \X BOOLEAN)

\* the address g_malloc0 returns: that of no buffer in use.  Of these the
\* model takes one the accelerator does not hold either, so that a stale log
\* base never passes for the new buffer's.
Bufs == {1, 2, 3}

NewBufs == LET free == Bufs \ {log_base, acc.log_base}
           IN  {CHOOSE a \in free : \A b \in free : a <= b}

\* the memory core reports a section again only after it removed it
Tracked(sec) == \E i \in 1 .. Len(mem_sections) : mem_sections[i] = sec

RegionAdd(sec, F) ==
    /\ ~aborted
    /\ Len(mem_sections) < MaxSections
    /\ ~Tracked(sec)
    /\ \E f \in F, newbuf \in NewBufs :
          Commit(vhost_region_add(Dev(f[1], f[2]), sec, newbuf), "region_add")

RegionDel(sec, F) ==
    /\ ~aborted
    /\ \E f \in F, newbuf \in NewBufs :
          Commit(vhost_region_del(Dev(f[1], f[2]), sec, newbuf), "region_del")

\* the sections the memory core may ask to sync: those it has reported
LogSync(sec) ==
    /\ ~aborted
    /\ Tracked(sec)
    /\ Commit(vhost_log_sync(Dev(0, FALSE), sec), "log_sync")

MigrationLog(enable, F) ==
    /\ ~aborted
    /\ \E f \in F, newbuf \in NewBufs :
          Commit(vhost_log_global(Dev(f[1], f[2]), enable, newbuf), "migration_log")

Start(F) ==
    /\ ~aborted
    /\ ~started
    /\ \E f \in F, newbuf \in NewBufs :
          Commit(vhost_dev_start(Dev(f[1], f[2]), newbuf), "start")

Stop(F) ==
    /\ ~aborted
    /\ started
    /\ \E f \in F :
          Commit(vhost_dev_stop(Dev(f[1], f[2])), "stop")

(***************************************************************************)
(* The accelerator: it sets the bit of a page it wrote, in the log it was  *)
(* given, for memory of its region table when F_LOG_ALL is set and for the *)
(* used ring of a queue whose LOG flag is set.                             *)
(***************************************************************************)
PageInRange(page, first, size) ==
    ranges_overlap(page * VHOST_LOG_PAGE, VHOST_LOG_PAGE, first, size)

AccelLogs(page) ==
    \/ /\ acc.log_all
       /\ \E i \in 1 .. Len(acc.mem) :
             PageInRange(page, acc.mem[i].guest_phys_addr, acc.mem[i].memory_size)
    \/ \E i \in 0 .. NVqs - 1 :
          /\ acc.vring[i].addr /\ acc.vring[i].log
          /\ PageInRange(page, vqs[i].used_phys, vqs[i].used_size)

RECURSIVE SumBits(_, _)
SumBits(l, i) == IF i > Len(l) THEN 0 ELSE Cardinality(l[i]) + SumBits(l, i + 1)

AccelWrite(page) ==
    LET w == page \div VHOST_LOG_BITS
        b == page % VHOST_LOG_BITS
    IN  /\ ~aborted
        /\ started
        /\ log_base # 0 /\ acc.log_base = log_base
        /\ w < Len(log)
        /\ AccelLogs(page)
        /\ b \notin log[w + 1]
        /\ SumBits(log, 1) < MaxDirty
        /\ log' = [log EXCEPT ![w + 1] = @ \cup {b}]
        /\ trace' = <<>>
        /\ last' = [LastZero EXCEPT !.op = "accel"]
        /\ UNCHANGED <<mem, mem_sections, log_base, log_enabled, started, vqs, acc,
                       aborted, sync>>

\* the pages of the guest addresses the sections and the rings cover
Pages == 0 .. (3 * VHOST_LOG_BITS - 1)

\* the device with every call succeeding
Next ==
    \/ \E sec \in SectionIds : RegionAdd(sec, NoFault)
    \/ \E sec \in SectionIds : RegionDel(sec, NoFault)
    \/ \E sec \in SectionIds : LogSync(sec)
    \/ \E enable \in BOOLEAN : MigrationLog(enable, NoFault)
    \/ Start(NoFault)
    \/ Stop(NoFault)
    \/ \E page \in Pages : AccelWrite(page)

Spec == Init /\ [][Next]_vars

\* the device with calls that fail
FaultSectionIds == {1}

NextFault ==
    \/ \E sec \in FaultSectionIds : RegionAdd(sec, Faults(NVqs + 2))
    \/ \E sec \in FaultSectionIds : RegionDel(sec, Faults(NVqs + 2))
    \/ \E enable \in BOOLEAN : MigrationLog(enable, Faults(NVqs + 2))
    \/ Start(Faults(9 * NVqs + 4))
    \/ Stop(Faults(NVqs + 1))

SpecFault == Init /\ [][NextFault]_vars

\* a start in which call f fails, a map by returning a short mapping
StartShort(f) ==
    /\ ~aborted
    /\ ~started
    /\ \E newbuf \in NewBufs :
          Commit(vhost_dev_start(DevShort(f), newbuf), "start")

\* the device with mappings that come back short
NextShort ==
    \/ \E f \in 1 .. 9 * NVqs + 4 : StartShort(f)
    \/ Start(NoFault)
    \/ Stop(NoFault)

SpecShort == Init /\ [][NextShort]_vars

(***************************************************************************)
(* vhost_dev_sync_region step by step, with the accelerator setting bits   *)
(* of the log between its steps.  The device is one that tracks the second *)
(* section of SectionTable, logs and was started.  Of a call, sync holds   *)
(* the position (pc), the words from and to, the value the test of line 45 *)
(* read (seen) and the local variable log; trace keeps the bits the        *)
(* accelerator set, the words fetched and the pages reported.              *)
(***************************************************************************)
HvInit ==
    /\ mem = <<Region(4, 8, 104)>>
    /\ mem_sections = <<2>>
    /\ log = <<{}, {}, {}>>
    /\ log_base = 1
    /\ log_enabled = TRUE
    /\ started = TRUE
    /\ vqs = [i \in 0 .. NVqs - 1 |->
                 [maps |-> {1, 2, 3, 4},
                  used_phys |-> VqUsedPhys(i), used_size |-> VqUsedSize(i),
                  ring_phys |-> VqRingPhys(i), ring_size |-> VqRingSize(i)]]
    /\ acc = [log_all |-> TRUE, mem |-> <<Region(4, 8, 104)>>, pushed |-> TRUE,
              log_base |-> 1, guest_notifiers |-> TRUE,
              vring |-> [i \in 0 .. NVqs - 1 |-> [addr |-> TRUE, log |-> TRUE]]]
    /\ trace = <<>>
    /\ last = [LastZero EXCEPT !.op = "start"]
    /\ aborted = FALSE
    /\ sync = SyncIdle

\* the ranges vhost_sync_dirty_bitmap calls vhost_dev_sync_region for: those
\* of the regions (lines 76-82) and of the used rings (lines 83-87)
SyncedRanges ==
    {<<mem[i].guest_phys_addr,
       range_get_last(mem[i].guest_phys_addr, mem[i].memory_size)>> : i \in 1 .. Len(mem)}
    \cup {<<vqs[i].used_phys, U64(range_get_last(vqs[i].used_phys, vqs[i].used_size))>> :
             i \in 0 .. NVqs - 1}

HvStep(next, newlog, events) ==
    /\ sync' = next
    /\ log' = newlog
    /\ trace' = trace \o events
    /\ last' = [LastZero EXCEPT !.op = "sync_region"]
    /\ UNCHANGED <<mem, mem_sections, log_base, log_enabled, started, vqs, acc, aborted>>

\* lines 28-38: a call made by vhost_log_sync for a tracked section, whose
\* range is not empty and passes the two asserts
HvCall(sec, start, end) ==
    /\ sync.pc = "idle" /\ sync.calls < MaxSyncCalls
    /\ log_enabled /\ started
    /\ Tracked(sec)
    /\ end >= start
    /\ end \div VHOST_LOG_CHUNK < Len(log)
    /\ start \div VHOST_LOG_CHUNK < Len(log)
    /\ HvStep([sync EXCEPT !.pc = "test", !.from = start \div VHOST_LOG_CHUNK,
                           !.to = end \div VHOST_LOG_CHUNK + 1, !.sec = sec,
                           !.start = start, !.calls = @ + 1],
              log, <<>>)

\* lines 40, 45-48: the loop test and the test of the word, which is not
\* atomic: a word read as zero is passed over
HvTest ==
    /\ sync.pc = "test"
    /\ IF ~(sync.from < sync.to)
       THEN HvStep([sync EXCEPT !.pc = "idle"], log, <<>>)
       ELSE IF log[sync.from + 1] = {}
       THEN HvStep([sync EXCEPT !.from = @ + 1, !.seen = {}], log, <<>>)
       ELSE HvStep([sync EXCEPT !.pc = "fetch", !.seen = log[sync.from + 1]], log, <<>>)

\* the bits reported are those the test of line 45 read
FetchResultSeen(seen, word) == seen

\* line 53: log = __sync_fetch_and_and(from, 0), seen being what line 45 read
\* and word what the word holds now
FetchResult(seen, word) == word

\* line 53: the word is fetched and zeroed in one step
HvFetch ==
    /\ sync.pc = "fetch"
    /\ HvStep([sync EXCEPT !.pc = "report",
                           !.log = FetchResult(sync.seen, log[sync.from + 1])],
              [log EXCEPT ![sync.from + 1] = {}],
              << EvObs("fetch", sync.from, 0, TRUE, sync.seen) >>)

\* lines 54-62: the lowest bit of the local variable is reported and cleared
\* in it; when none is left the loop goes to the next word
HvReport ==
    /\ sync.pc = "report"
    /\ IF sync.log = {}
       THEN HvStep([sync EXCEPT !.pc = "test", !.from = @ + 1], log, <<>>)
       ELSE HvStep([sync EXCEPT !.log = @ \ {Least(sync.log)}], log,
                   << EvObs("dirty", sync.sec,
                            DirtyRamAddr(SectionTable[sync.sec],
                                         sync.from * VHOST_LOG_CHUNK, Least(sync.log)),
                            TRUE,
                            <<sync.from * VHOST_LOG_CHUNK, Least(sync.log), sync.start>>) >>)

\* the accelerator sets the bit of a page it wrote, whatever the call does
HvAccel(page) ==
    /\ log_base # 0 /\ acc.log_base = log_base
    /\ page \div VHOST_LOG_BITS < Len(log)
    /\ AccelLogs(page)
    /\ (page % VHOST_LOG_BITS) \notin log[page \div VHOST_LOG_BITS + 1]
    /\ Cardinality({k \in 1 .. Len(trace) : trace[k].op = "set"}) < MaxSets
    /\ HvStep(sync,
              [log EXCEPT ![page \div VHOST_LOG_BITS + 1] = @ \cup {page % VHOST_LOG_BITS}],
              << Ev("set", page \div VHOST_LOG_BITS, page % VHOST_LOG_BITS, TRUE) >>)

NextHarvest ==
    \/ \E sec \in SectionIds, r \in SyncedRanges :
          HvCall(sec, MAX(SectionTable[sec].offset_within_address_space, r[1]),
                 MIN(SectionTable[sec].offset_within_address_space
                     + SectionTable[sec].size, r[2]))
    \/ HvTest
    \/ HvFetch
    \/ HvReport
    \/ \E page \in Pages : HvAccel(page)

SpecHarvest == HvInit /\ [][NextHarvest]_vars

(***************************************************************************)
(* The region table alone: the add and remove of vhost_set_memory (lines   *)
(* 396-403) applied to any range, without the device around it.            *)
(***************************************************************************)
HvaStride == (MaxGpa + 1) * 2

\* the host-virtual placements tried for a range: hva = HvaStride * (k + 1) + gpa
HvaSteps == {0, 1}

\* lines 396-399: unassign, then assign
RegionAddTable(regions, start_addr, size, uaddr) ==
    LET u == vhost_dev_unassign_memory(regions, start_addr, size)
    IN  IF u.err # "none" THEN u
        ELSE vhost_dev_assign_memory(u.regions, start_addr, size, uaddr)

\* lines 396 and 402: unassign, and unassign again
RegionDelTable(regions, start_addr, size) ==
    LET u == vhost_dev_unassign_memory(regions, start_addr, size)
    IN  IF u.err # "none" THEN u
        ELSE vhost_dev_unassign_memory(u.regions, start_addr, size)

RTAdd(gpa, size, k) ==
    LET r == RegionAddTable(mem, gpa, size, HvaStride * (k + 1) + gpa)
    IN  /\ ~aborted
        /\ mem' = r.regions
        /\ aborted' = (r.err # "none")
        /\ last' = [LastZero EXCEPT !.op = "rt_add"]
        /\ UNCHANGED <<mem_sections, log, log_base, log_enabled, started, vqs, acc, trace,
                       sync>>

RTDel(gpa, size) ==
    LET r == RegionDelTable(mem, gpa, size)
    IN  /\ ~aborted
        /\ mem' = r.regions
        /\ aborted' = (r.err # "none")
        /\ last' = [LastZero EXCEPT !.op = "rt_del"]
        /\ UNCHANGED <<mem_sections, log, log_base, log_enabled, started, vqs, acc, trace,
                       sync>>

NextRT ==
    \/ \E gpa \in 0 .. MaxGpa, k \in HvaSteps :
          \E size \in 1 .. MaxGpa + 1 - gpa : RTAdd(gpa, size, k)
    \/ \E gpa \in 0 .. MaxGpa :
          \E size \in 1 .. MaxGpa + 1 - gpa : RTDel(gpa, size)

SpecRT == Init /\ [][NextRT]_vars

(***************************************************************************)
(* Properties of the region table.                                         *)
(***************************************************************************)
RegionsOverlap(r1, r2) ==
    /\ r1.guest_phys_addr < r2.guest_phys_addr + r2.memory_size
    /\ r2.guest_phys_addr < r1.guest_phys_addr + r1.memory_size

RegionsMergeable(r1, r2) ==
    /\ r1.guest_phys_addr + r1.memory_size = r2.guest_phys_addr
    /\ r1.userspace_addr + r1.memory_size = r2.userspace_addr

\* C1: after any sequence of region adds (unassign, assign) and removes
\* (unassign) from the empty table, no two regions of the table have
\* intersecting guest-physical ranges.
C1_NonOverlap ==
    \A i, j \in 1 .. Len(mem) : i # j => ~RegionsOverlap(mem[i], mem[j])

\* a table of at least three regions, one of them made by a split or a trim
C1_Witness ==
    /\ ~aborted
    /\ Len(mem) >= 3
    /\ last.op = "rt_add"
    /\ \E i \in 1 .. Len(mem) : mem[i].guest_phys_addr > 0 /\ mem[i].memory_size > 1

\* C2: after any such sequence the table never holds two regions R1, R2 with
\* R1.gpa + R1.size = R2.gpa and R1.hva + R1.size = R2.hva.
C2_MergeMaximal ==
    \A i, j \in 1 .. Len(mem) : i # j => ~RegionsMergeable(mem[i], mem[j])

\* an add has merged the new range with a neighbour on each side
C2_Witness ==
    /\ last.op = "rt_add"
    /\ Len(mem) = 2
    /\ \E i \in 1 .. Len(mem) : mem[i].memory_size >= 3

(***************************************************************************)
(* Reading the calls of the last handler.                                  *)
(***************************************************************************)
\* the commands of the control channel, and the mappings
CommandOps ==
    {"SetFeatures", "SetMemTable", "SetLogBase", "SetVringNum", "SetVringBase",
     "SetVringAddr", "SetVringKick", "SetVringCall", "GetVringBase", "map", "unmap"}

IsCommand(e) == e.op \in CommandOps

Commands(t) == SelectSeq(t, IsCommand)

Strip(t) == [k \in 1 .. Len(t) |-> <<t[k].op, t[k].idx, t[k].arg>>]

IsPrefix(s, t) == Len(s) <= Len(t) /\ s = SubSeq(t, 1, Len(s))

\* the first call that failed, Len(t) + 1 when none did
FirstFail(t) ==
    LET bad == {k \in 1 .. Len(t) : ~t[k].ok}
    IN  IF bad = {} THEN Len(t) + 1 ELSE CHOOSE k \in bad : \A j \in bad : k <= j

\* the commands up to the first one that failed
Forward(t) == Commands(SubSeq(t, 1, IF FirstFail(t) > Len(t) THEN Len(t) ELSE FirstFail(t)))

\* the first entry of t after position k that frees a buffer
FreeAfter(t, k) ==
    LET fr == {j \in k + 1 .. Len(t) : t[j].op = "free"}
    IN  IF fr = {} THEN Len(t) + 1 ELSE CHOOSE j \in fr : \A i \in fr : j <= i

\* the guest-physical address a "dirty" entry stands for: the place in its
\* section's address space of the offset memory_region_set_dirty was given
DirtyGpa(e) ==
    SectionTable[e.idx].offset_within_address_space
    + (e.arg - SectionTable[e.idx].offset_within_region)

(***************************************************************************)
(* Properties of the log and of the accelerator's mirror.                  *)
(***************************************************************************)
\* C3: when the log is resized, every bit set in the old log is notified as
\* a dirty page exactly once, at the page it stands for, before the old
\* buffer is freed.
C3_DirtyPreserved ==
    \A k \in 1 .. Len(trace) :
        trace[k].op = "log_resize" =>
            \A p \in trace[k].obs :
                Cardinality({j \in k + 1 .. FreeAfter(trace, k) - 1 :
                                /\ trace[j].op = "dirty"
                                /\ DirtyGpa(trace[j]) = p * VHOST_LOG_PAGE}) = 1

\* C4: when vhost_set_memory pushes a table to a device that logs, the log
\* the accelerator has is at least as long as the table it replaces and the
\* table pushed need; a resize before the push grows the log (to the new
\* need plus the slack), a resize after it shrinks the log (to the new need).
C4_GrowBeforeShrinkAfter ==
    \A k \in 1 .. Len(trace) :
        (last.op \in {"region_add", "region_del"} /\ trace[k].op = "observe") =>
            /\ trace[k].obs[1] >= trace[k].obs[2]
            /\ trace[k].obs[1] >= trace[k].obs[3]
            /\ k < Len(trace) /\ trace[k + 1].op = "SetMemTable"
            /\ \A j \in 1 .. Len(trace) :
                  trace[j].op = "log_resize" =>
                      /\ j < k => /\ trace[j].arg > trace[j].idx
                                  /\ trace[j].arg = trace[k].obs[3] + VHOST_LOG_BUFFER
                                  /\ trace[j + 1].op = "SetLogBase"
                      /\ j > k => /\ trace[j].arg < trace[j].idx
                                  /\ trace[j].arg = trace[k].obs[3]

\* a region event pushed a table and shrank the log after it
C4_Witness ==
    /\ ~aborted
    /\ last.op = "region_del"
    /\ \E k, j \in 1 .. Len(trace) :
          k < j /\ trace[k].op = "observe" /\ trace[j].op = "log_resize"

\* C5: between handler calls, a started device that logs has a log of at
\* least vhost_get_log_size() words.
C5_LogCoversTable ==
    (~aborted /\ log_enabled /\ started) => Len(log) >= vhost_get_log_size(mem, vqs)

\* a region event grew the log of a started device that logs
C5_Witness ==
    /\ ~aborted /\ log_enabled /\ started
    /\ last.op = "region_add"
    /\ \E j \in 1 .. Len(trace) : trace[j].op = "log_resize"
    /\ Len(log) = vhost_get_log_size(mem, vqs) + VHOST_LOG_BUFFER

AllAreas == {1, 2, 3, 4}

\* C6: while the device is started the accelerator has the region table the
\* device holds, every queue is mapped and bound, F_LOG_ALL and every queue's
\* LOG flag equal log_enabled, and when log_enabled the log base pushed last
\* is the address of the log.
C6_MirrorConsistent ==
    (~aborted /\ started) =>
        /\ acc.pushed /\ acc.mem = mem
        /\ \A i \in 0 .. NVqs - 1 :
              /\ vqs[i].maps = AllAreas
              /\ acc.vring[i].addr
              /\ acc.vring[i].log = log_enabled
        /\ acc.log_all = log_enabled
        /\ log_enabled => acc.log_base = log_base

\* a region event changed the table of a started device that logs
C6_Witness ==
    /\ ~aborted /\ started /\ log_enabled
    /\ last.op = "region_add"
    /\ Len(mem) >= 2
    /\ \E j \in 1 .. Len(trace) : trace[j].op = "SetMemTable"

(***************************************************************************)
(* Properties of the calls a handler makes.                                *)
(***************************************************************************)
\* vhost_migration_log took the path that switches logging on / off on a
\* started device
EnableCall == last.op = "migration_log" /\ Len(trace) > 0 /\ trace[1].op = "log_resize"

DisableCall == last.op = "migration_log" /\ Len(trace) > 0 /\ trace[1].op = "set_log"

\* SetVringAddr for queues 0 .. NVqs - 1 with the LOG flag as given
AddrInOrder(flag) == [i \in 1 .. NVqs |-> <<"SetVringAddr", i - 1, flag>>]

EnableExpected(base) ==
    << <<"SetLogBase", 0, base>>, <<"SetFeatures", 0, 1>> >> \o AddrInOrder(1)

\* C7: enabling the log on a started device allocates a log of exactly
\* vhost_get_log_size() words and issues SetLogBase, then SetFeatures with
\* F_LOG_ALL, then SetVringAddr with the LOG flag for each queue in index
\* order; log_enabled becomes true only when all of them succeeded.
C7_EnableLogOrder ==
    EnableCall =>
        LET fwd  == Forward(trace)
            base == fwd[1].arg
            want == EnableExpected(base)
            done == Len(fwd) = Len(want) /\ \A k \in 1 .. Len(fwd) : fwd[k].ok
        IN  /\ trace[1].arg = vhost_get_log_size(mem, vqs)
            /\ Len(fwd) >= 1
            /\ IsPrefix(Strip(fwd), want)
            /\ log_enabled <=> done
            /\ done => /\ Len(log) = trace[1].arg
                       /\ log_base = base /\ base # 0
                       /\ acc.log_base = base

\* logging was switched on on a started device that has a region
C7_Witness ==
    /\ EnableCall /\ ~aborted /\ log_enabled /\ started
    /\ Len(mem) >= 1
    /\ Len(Forward(trace)) = NVqs + 2

\* the commands of the last handler, and the buffers it freed
IsCommandOrFree(e) == e.op \in CommandOps \cup {"free"}

\* C8 as the specification states it: switching the log off issues the
\* SetVringAddr of every queue first, then SetFeatures, then withdraws the
\* log base with SetLogBase, and only then frees the log.
C8_DisableReversesEnable ==
    (DisableCall /\ ~aborted) =>
        \E f, b, r \in 1 .. Len(trace) :
            /\ trace[f].op = "SetFeatures" /\ trace[b].op = "SetLogBase"
            /\ trace[r].op = "free"
            /\ f < b /\ b < r
            /\ \A i \in 0 .. NVqs - 1 :
                  \E q \in 1 .. f - 1 : trace[q].op = "SetVringAddr" /\ trace[q].idx = i

\* C8: switching the log off on a started device issues SetFeatures without
\* F_LOG_ALL first, then SetVringAddr without the LOG flag for each queue in
\* index order, then frees the log; no SetLogBase is issued, so the
\* accelerator keeps the address of the freed log, with F_LOG_ALL and every
\* queue's LOG flag off.
C8_DisableOrder ==
    (DisableCall /\ ~aborted) =>
        LET old == acc.log_base
        IN  /\ Strip(SelectSeq(trace, IsCommandOrFree))
                  = << <<"SetFeatures", 0, 0>> >> \o AddrInOrder(0)
                       \o << <<"free", 0, old>> >>
            /\ old # 0
            /\ ~log_enabled /\ log_base = 0 /\ Len(log) = 0
            /\ ~acc.log_all
            /\ \A i \in 0 .. NVqs - 1 : ~acc.vring[i].log

\* logging was switched off on a started device and its log freed
C8_Witness ==
    /\ DisableCall /\ ~aborted /\ started /\ ~log_enabled
    /\ \E r \in 1 .. Len(trace) : trace[r].op = "free"
    /\ Len(mem) >= 1

\* vhost_virtqueue_init for queue i, with the LOG flag as given
InitExpected(i, flag) ==
    << <<"SetVringNum", i, 0>>, <<"SetVringBase", i, 0>>,
       <<"map", i, 1>>, <<"map", i, 2>>, <<"map", i, 3>>, <<"map", i, 4>>,
       <<"SetVringAddr", i, flag>>, <<"SetVringKick", i, 0>>, <<"SetVringCall", i, 0>> >>

\* vhost_virtqueue_cleanup for queue i
CleanupExpected(i) ==
    << <<"GetVringBase", i, 0>>,
       <<"unmap", i, 4>>, <<"unmap", i, 3>>, <<"unmap", i, 2>>, <<"unmap", i, 1>> >>

RECURSIVE ForQueues(_, _)
ForQueues(Per(_), i) == IF i >= NVqs THEN <<>> ELSE Per(i) \o ForQueues(Per, i + 1)

InitNoLog(i) == InitExpected(i, 0)

\* C9: with log_enabled false a successful start issues exactly SetFeatures,
\* SetMemTable, then for each queue in index order SetVringNum, SetVringBase,
\* the four mappings, SetVringAddr, SetVringKick, SetVringCall, and no
\* SetLogBase; the stop issues exactly, for each queue in index order,
\* GetVringBase then the four unmappings, and no SetLogBase.
C9_StartStopTrace ==
    /\ (last.op = "start" /\ ~aborted /\ last.ret = 0 /\ ~log_enabled) =>
           Strip(Commands(trace))
               = << <<"SetFeatures", 0, 0>>, <<"SetMemTable", 0, Len(mem)>> >>
                 \o ForQueues(InitNoLog, 0)
    /\ (last.op = "stop" /\ ~aborted /\ ~log_enabled) =>
           Strip(Commands(trace)) = ForQueues(CleanupExpected, 0)

\* a device with a region, started without logging, was stopped
C9_Witness ==
    /\ last.op = "stop" /\ ~aborted /\ ~log_enabled /\ ~started
    /\ Len(mem) >= 1
    /\ Len(Commands(trace)) = 5 * NVqs

\* C10: when vhost_dev_set_log fails at the SetVringAddr of queue k (and the
\* calls of the unwinding succeed), only queues k-1 .. 0 are pushed again
\* with the original LOG flag, then the features are pushed again, no assert
\* of the unwinding fails, and on return F_LOG_ALL, the queues' LOG flags and
\* log_enabled are what they were.
C10_UnwindPriorQueues ==
    \A s \in 1 .. Len(trace) :
        (last.op = "migration_log" /\ trace[s].op = "set_log") =>
            LET p == FirstFail(trace)
            IN  (/\ p <= Len(trace) /\ p > s
                 /\ trace[p].op = "SetVringAddr"
                 /\ \A j \in p + 1 .. Len(trace) : trace[j].ok) =>
                    LET k    == trace[p].idx
                        orig == trace[s].obs
                        flag == B(orig[1])
                    IN  /\ Strip(SubSeq(trace, p + 1, Len(trace)))
                              = [i \in 1 .. k |-> <<"SetVringAddr", k - i, flag>>]
                                \o << <<"SetFeatures", 0, flag>> >>
                        /\ last.err \in {"none", "abort()"}
                        /\ log_enabled = orig[1]
                        /\ acc.log_all = orig[2]
                        /\ \A i \in 0 .. NVqs - 1 : acc.vring[i].log = (i \in orig[3])

(***************************************************************************)
(* Properties of the failure paths of vhost_dev_start.                     *)
(***************************************************************************)
RECURSIVE ForQueuesDown(_, _)
ForQueuesDown(Per(_), i) == IF i < 0 THEN <<>> ELSE Per(i) \o ForQueuesDown(Per, i - 1)

\* the unmappings vhost_virtqueue_init makes itself when its call f fails
InitOwnUnmaps(f) ==
    IF f.op = "map" THEN [j \in 1 .. f.arg - 1 |-> <<"unmap", f.idx, f.arg - j>>]
    ELSE IF f.op \in {"SetVringAddr", "SetVringKick", "SetVringCall"}
    THEN [j \in 1 .. 4 |-> <<"unmap", f.idx, 5 - j>>]
    ELSE <<>>

\* the queues whose vhost_virtqueue_init returned 0 before position p of t
BoundBefore(t, p) == Cardinality({j \in 1 .. p - 1 : t[j].op = "SetVringCall" /\ t[j].ok})

\* C11: when vhost_dev_start returns an error (whichever of its calls failed:
\* the guest-notifier activation, SetFeatures, SetMemTable, a call of the
\* init of queue k, or SetLogBase), started is false, the queues bound by
\* this call are cleaned up from k-1 down to 0 and none of them is left
\* mapped, and the guest notifiers are switched off if they were switched on.
C11_StartUnwinds ==
    (last.op = "start" /\ ~aborted /\ last.ret < 0) =>
        LET p == FirstFail(trace)
            f == trace[p]
            k == BoundBefore(trace, p)
            off == IF f.op = "set_guest_notifiers" THEN <<>>
                   ELSE << <<"set_guest_notifiers", 0, 0>> >>
        IN  /\ p <= Len(trace)
            /\ ~started
            /\ \A i \in 0 .. k - 1 : vqs[i].maps = {}
            /\ Strip(SubSeq(trace, p + 1, Len(trace)))
                  = InitOwnUnmaps(f) \o ForQueuesDown(CleanupExpected, k - 1) \o off
            /\ (f.op # "set_guest_notifiers" /\ trace[Len(trace)].ok)
                  => ~acc.guest_notifiers

\* a start failed at SetLogBase, after every queue was bound
C11_Witness ==
    /\ last.op = "start" /\ ~aborted /\ last.ret < 0 /\ ~started
    /\ trace[FirstFail(trace)].op = "SetLogBase"
    /\ BoundBefore(trace, FirstFail(trace)) = NVqs
    /\ \A i \in 0 .. NVqs - 1 : vqs[i].maps = {}
    /\ Len(mem) >= 1

\* C20: when vhost_virtqueue_init fails after its first map attempt (a map
\* that returns NULL or a short mapping, or a failing SetVringAddr,
\* SetVringKick or SetVringCall), the areas it mapped are unmapped in reverse
\* order (ring, used, avail, desc) and on return the queue holds no mapping.
C20_InitUnwinds ==
    (last.op = "start" /\ ~aborted /\ last.ret < 0) =>
        LET p == FirstFail(trace)
            f == trace[p]
        IN  (/\ p <= Len(trace)
             /\ f.op \in {"map", "SetVringAddr", "SetVringKick", "SetVringCall"}) =>
                /\ Strip(SelectSeq(SubSeq(trace, p + 1, Len(trace)),
                                   LAMBDA e : e.op = "unmap" /\ e.idx = f.idx))
                      = InitOwnUnmaps(f)
                /\ vqs[f.idx].maps = {}

(***************************************************************************)
(* The functions of the region table on their own.  A table the device can *)
(* hold is any array of regions of which no two overlap and no two are     *)
(* adjacent in both address spaces: adding its regions one by one to the   *)
(* empty table builds it.  Each function is applied once, to any such      *)
(* table and any range, and what it was given is kept in trace.            *)
(***************************************************************************)
\* the regions of the region-table specification
TableRegions ==
    {Region(x[1], x[2], HvaStride * (x[3] + 1) + x[1]) :
        x \in {y \in (0 .. MaxGpa) \X (1 .. MaxGpa + 1) \X HvaSteps :
                  y[1] + y[2] <= MaxGpa + 1}}

Fits(t, r) ==
    \A i \in 1 .. Len(t) :
        ~RegionsOverlap(t[i], r) /\ ~RegionsMergeable(t[i], r) /\ ~RegionsMergeable(r, t[i])

\* the tables of n regions
RECURSIVE TablesOf(_)
TablesOf(n) ==
    IF n = 0 THEN {<<>>}
    ELSE {Append(p[1], p[2]) :
             p \in {q \in TablesOf(n - 1) \X TableRegions : Fits(q[1], q[2])}}

Tables == UNION {TablesOf(n) : n \in 0 .. MaxGpa + 1}

\* the used rings of a device that was started and stopped, both in the
\* first word of the log
FnUsedPhys(idx) == VHOST_LOG_PAGE * idx

FnInit ==
    /\ mem \in Tables
    /\ mem_sections = <<>>
    /\ log = <<>>
    /\ log_base = 0
    /\ log_enabled = FALSE
    /\ started = FALSE
    /\ vqs = [i \in 0 .. NVqs - 1 |->
                 [VqZero EXCEPT !.used_phys = FnUsedPhys(i), !.used_size = VqUsedSize(i)]]
    /\ acc = AccZero
    /\ trace = <<>>
    /\ last = LastZero
    /\ aborted = FALSE
    /\ sync = SyncIdle

\* one application: the table it leaves, and in trace what it was given
FnApply(regions, op, gpa, size, err, obs) ==
    /\ last.op = "init"
    /\ mem' = regions
    /\ trace' = << EvObs(op, gpa, size, err = "none", obs) >>
    /\ last' = [LastZero EXCEPT !.op = op, !.err = err]
    /\ aborted' = (err # "none")
    /\ UNCHANGED <<mem_sections, log, log_base, log_enabled, started, vqs, acc, sync>>

\* lines 384-399: the test of an add and, whatever it says, unassign then
\* assign; obs is the table before, the result of the test, the address and
\* the highest slot written past the regions the array held (-1 for none)
FnAdd(gpa, size, uaddr) ==
    FnApply(RegionAddTable(mem, gpa, size, uaddr).regions, "add", gpa, size,
            RegionAddTable(mem, gpa, size, uaddr).err,
            <<mem, vhost_dev_cmp_memory(mem, gpa, size, uaddr), uaddr,
              SetMemoryChange(mem, gpa, size, TRUE, uaddr).maxidx>>)

\* lines 396 and 402: unassign, and unassign again; obs is the table before,
\* the table the first call left and the highest slot written past the
\* regions the array held (-1 for none)
FnRemove(gpa, size) ==
    FnApply(RegionDelTable(mem, gpa, size).regions, "remove", gpa, size,
            RegionDelTable(mem, gpa, size).err,
            <<mem, vhost_dev_unassign_memory(mem, gpa, size).regions,
              SetMemoryChange(mem, gpa, size, FALSE, 0).maxidx>>)

\* assign, then unassign of the same range
AssignUnassign(a, start_addr, size) ==
    IF a.err # "none" THEN a ELSE vhost_dev_unassign_memory(a.regions, start_addr, size)

\* a range no region overlaps is assigned, then unassigned; obs is the table
\* before and the table assign left
FnRoundTrip(gpa, size, uaddr) ==
    /\ vhost_dev_find_reg(mem, gpa, size) < 0
    /\ FnApply(AssignUnassign(vhost_dev_assign_memory(mem, gpa, size, uaddr),
                              gpa, size).regions,
               "round_trip", gpa, size,
               AssignUnassign(vhost_dev_assign_memory(mem, gpa, size, uaddr),
                              gpa, size).err,
               <<mem, vhost_dev_assign_memory(mem, gpa, size, uaddr).regions>>)

\* vhost_get_log_size of the table and the used rings; arg is its result
FnLogSize == FnApply(mem, "get_log_size", 0, vhost_get_log_size(mem, vqs), "none", <<>>)

NextFn ==
    \/ \E gpa \in 0 .. MaxGpa, k \in HvaSteps :
          \E size \in 1 .. MaxGpa + 1 - gpa : FnAdd(gpa, size, HvaStride * (k + 1) + gpa)
    \/ \E gpa \in 0 .. MaxGpa :
          \E size \in 1 .. MaxGpa + 1 - gpa : FnRemove(gpa, size)
    \/ \E gpa \in 0 .. MaxGpa, k \in HvaSteps :
          \E size \in 1 .. MaxGpa + 1 - gpa :
              FnRoundTrip(gpa, size, HvaStride * (k + 1) + gpa)
    \/ FnLogSize

SpecFn == FnInit /\ [][NextFn]_vars

(***************************************************************************)
(* Properties of the functions of the region table.                        *)
(***************************************************************************)
\* a table as a set of regions
SetOf(regions) == {regions[i] : i \in 1 .. Len(regions)}

C13_RoundTrip ==
    last.op = "round_trip" =>
        /\ ~aborted
        /\ SetOf(mem) = SetOf(trace[1].obs[1])

\* assign merged the range with a neighbour on each side, unassign split them
C13_Witness ==
    /\ last.op = "round_trip" /\ ~aborted
    /\ Len(trace[1].obs[1]) >= 3
    /\ Len(trace[1].obs[2]) = Len(trace[1].obs[1]) - 1
    /\ Len(mem) = Len(trace[1].obs[1])

\* C14: a second unassign of the same range, made right after the first,
\* leaves the array exactly as the first call left it.
C14_UnassignIdempotent ==
    (last.op = "remove" /\ ~aborted) => mem = trace[1].obs[2]

\* the first unassign split a region of a table of two
C14_Witness ==
    /\ last.op = "remove" /\ ~aborted
    /\ Len(trace[1].obs[1]) = 2
    /\ Len(trace[1].obs[2]) = 3
    /\ mem = trace[1].obs[2]

\* C15: with the used rings of the queues fixed, an add (unassign, then
\* assign) never makes vhost_get_log_size() smaller than it was, and a
\* remove (unassign) never makes it larger.
C15_LogSizeMonotonic ==
    /\ (last.op = "add" /\ ~aborted) =>
           vhost_get_log_size(mem, vqs) >= vhost_get_log_size(trace[1].obs[1], vqs)
    /\ (last.op = "remove" /\ ~aborted) =>
           vhost_get_log_size(mem, vqs) <= vhost_get_log_size(trace[1].obs[1], vqs)

\* an add to a table of regions made the log one word longer
C15_Witness ==
    /\ last.op = "add" /\ ~aborted
    /\ Len(trace[1].obs[1]) >= 1
    /\ vhost_get_log_size(mem, vqs) = vhost_get_log_size(trace[1].obs[1], vqs) + 1

\* the address of the last byte of every region and of every used ring
LastBytes(regions, q) ==
    {regions[i].guest_phys_addr + regions[i].memory_size - 1 : i \in 1 .. Len(regions)}
    \cup {q[i].used_phys + q[i].used_size - 1 : i \in 0 .. NVqs - 1}

\* the largest number of a set, 0 for the empty set
MaxOf(S) == IF S = {} THEN 0 ELSE CHOOSE x \in S : \A y \in S : x >= y

CeilDiv(a, b) == (a + b - 1) \div b

\* C16 as the specification states it: vhost_get_log_size() is the maximum,
\* over the regions and the used rings, of ceil(last_byte / CHUNK) + 1.
C16_LogSizeCeil ==
    last.op = "get_log_size" =>
        trace[1].arg = MaxOf({CeilDiv(b, VHOST_LOG_CHUNK) + 1 : b \in LastBytes(mem, vqs)})

\* C16: vhost_get_log_size() is the maximum, over the regions and the used
\* rings, of floor(last_byte / CHUNK) + 1: one more than the index of the
\* log word that holds the last byte.
C16_LogSizeFloor ==
    last.op = "get_log_size" =>
        trace[1].arg = MaxOf({b \div VHOST_LOG_CHUNK + 1 : b \in LastBytes(mem, vqs)})

\* the size was taken for a table whose last byte is in the second word
\* while the used rings end in the first
C16_Witness ==
    /\ last.op = "get_log_size"
    /\ Len(mem) >= 2
    /\ trace[1].arg = 2
    /\ \A i \in 0 .. NVqs - 1 : vqs[i].used_phys + vqs[i].used_size - 1 < VHOST_LOG_CHUNK

\* the regions of u that are a region of p with its tail cut, or its head cut
TailCut(p, u) ==
    {r \in SetOf(u) \ SetOf(p) :
        \E o \in SetOf(p) : /\ o.guest_phys_addr = r.guest_phys_addr
                            /\ r.memory_size < o.memory_size}

HeadCut(p, u) ==
    {r \in SetOf(u) \ SetOf(p) :
        \E o \in SetOf(p) :
            /\ o.guest_phys_addr < r.guest_phys_addr
            /\ o.guest_phys_addr + o.memory_size = r.guest_phys_addr + r.memory_size}

\* C19: on a table of non-overlapping regions of size > 0 and for any range
\* of size > 0, vhost_dev_unassign_memory trips none of its asserts (nor does
\* the second call the remove path makes): at most one region has its tail
\* cut, at most one its head, no region is left with size 0, at most one
\* region is added, and one is added only when a single region overlaps the
\* range.
C19_UnassignAsserts ==
    last.op = "remove" =>
        LET p == trace[1].obs[1]
            u == trace[1].obs[2]
        IN  /\ ~aborted
            /\ \A i \in 1 .. Len(u) : u[i].memory_size > 0
            /\ Cardinality(TailCut(p, u)) <= 1
            /\ Cardinality(HeadCut(p, u)) <= 1
            /\ Len(u) <= Len(p) + 1
            /\ Len(u) = Len(p) + 1 =>
                  Cardinality({i \in 1 .. Len(p) :
                      ranges_overlap(p[i].guest_phys_addr, p[i].memory_size,
                                     trace[1].idx, trace[1].arg)}) = 1

\* an unassign cut the tail of one region, removed another whole and cut the
\* head of a third
C19_Witness ==
    /\ last.op = "remove" /\ ~aborted
    /\ Len(trace[1].obs[1]) >= 3
    /\ Len(trace[1].obs[2]) = Len(trace[1].obs[1]) - 1
    /\ Cardinality(TailCut(trace[1].obs[1], trace[1].obs[2])) = 1
    /\ Cardinality(HeadCut(trace[1].obs[1], trace[1].obs[2])) = 1

\* C21: vhost_set_memory sizes the array for n + 1 regions, n being the
\* number of regions when it is entered; no step of the event writes a slot
\* above n and the event leaves at most n + 1 regions.
C21_RegionCapacity ==
    /\ (last.op = "add" /\ ~aborted /\ trace[1].obs[2]) =>
           /\ trace[1].obs[4] <= Len(trace[1].obs[1])
           /\ Len(mem) <= Len(trace[1].obs[1]) + 1
    /\ (last.op = "remove" /\ ~aborted) =>
           /\ trace[1].obs[3] <= Len(trace[1].obs[1])
           /\ Len(mem) <= Len(trace[1].obs[1]) + 1

(***************************************************************************)
(* Properties of the log buffer and of the flags that make the accelerator *)
(* write it.                                                               *)
(***************************************************************************)
\* the positions of the entries of t whose call is one of ops
At(t, ops) == {k \in 1 .. Len(t) : t[k].op \in ops}

\* some queue is bound at the accelerator with the LOG flag
SomeQueueLogs == \E i \in 0 .. NVqs - 1 : acc.vring[i].addr /\ acc.vring[i].log

\* the accelerator has the address of the log, which is allocated and large
\* enough
LogBaseValid ==
    /\ log_base # 0
    /\ acc.log_base = log_base
    /\ Len(log) >= vhost_get_log_size(mem, vqs)

C26_LogLifetime ==
    (~aborted /\ (log_base # 0 \/ Len(log) > 0)) => (started /\ log_enabled)

(***************************************************************************)
(* Properties of the harvest.                                              *)
(***************************************************************************)
SyncAsserts ==
    {"assert(end / VHOST_LOG_CHUNK < dev->log_size)",
     "assert(start / VHOST_LOG_CHUNK < dev->log_size)"}

\* C22: whenever vhost_dev_sync_region has a range [start, end] that is not
\* empty, start / CHUNK and end / CHUNK are both less than the size of the
\* log, so neither of its two asserts fails: in vhost_log_sync, in the syncs
\* of vhost_dev_log_resize over the range of the old log and in those of
\* vhost_dev_stop over every address.
C22_LogIndexBounds ==
    /\ last.err \notin SyncAsserts
    /\ \A k \in 1 .. Len(trace) :
          trace[k].op = "sync" =>
              /\ trace[k].obs[1] \div VHOST_LOG_CHUNK < trace[k].obs[3]
              /\ trace[k].obs[2] \div VHOST_LOG_CHUNK < trace[k].obs[3]

\* a region_add grew the log, and the sync of the resize read a region up to
\* the last byte the old log covers, the region reaching further
C22_Witness ==
    /\ last.op = "region_add" /\ ~aborted
    /\ \E r \in At(trace, {"log_resize"}), y \in At(trace, {"sync"}) :
          /\ r < y
          /\ trace[r].idx > 0
          /\ trace[r].arg > trace[r].idx
          /\ trace[y].obs[2] = trace[r].idx * VHOST_LOG_CHUNK - 1
          /\ \E i \in 1 .. Len(mem) :
                mem[i].guest_phys_addr + mem[i].memory_size - 1 > trace[y].obs[2]

\* how often the accelerator set bit b_ of word w, and how often it was reported
TimesSet(w, b_) ==
    Cardinality({k \in At(trace, {"set"}) : trace[k].idx = w /\ trace[k].arg = b_})

TimesReported(w, b_) ==
    Cardinality({k \in At(trace, {"dirty"}) :
                    trace[k].obs[1] = w * VHOST_LOG_CHUNK /\ trace[k].obs[2] = b_})

\* C25: with the accelerator setting bits of the log between the steps of
\* vhost_dev_sync_region, every bit it set is reported by the call that
\* cleared it, or is still set in the word (or fetched and about to be
\* reported): the test of line 45 followed by the fetch-and-zero of line 53
\* never clears a bit without reporting it and never reports a set bit twice.
C25_AtomicHarvest ==
    \A w \in 0 .. Len(log) - 1, b_ \in 0 .. VHOST_LOG_BITS - 1 :
        TimesSet(w, b_) = TimesReported(w, b_)
                          + B(b_ \in log[w + 1])
                          + B(sync.pc = "report" /\ sync.from = w /\ b_ \in sync.log)

\* a call has returned which reported a bit that the accelerator set in a
\* word after the test of line 45 had read the word and before line 53
\* fetched it
C25_Witness ==
    /\ sync.pc = "idle" /\ sync.calls >= 1
    /\ \E f \in At(trace, {"fetch"}), y \in At(trace, {"dirty"}) :
          /\ f < y
          /\ trace[y].obs[1] = trace[f].idx * VHOST_LOG_CHUNK
          /\ trace[y].obs[2] \notin trace[f].obs
          /\ \A g \in At(trace, {"fetch"}) : ~(f < g /\ g < y)

\* whether a page has a byte in the guest-physical range of a section
InSection(page, section) ==
    ranges_overlap(page * VHOST_LOG_PAGE, VHOST_LOG_PAGE,
                   section.offset_within_address_space, section.size)

\* C24: vhost_log_sync(section) reads and clears only bits of pages inside
\* the section's guest-physical range [gpa, gpa + size - 1]; every page it
\* reports dirty is a page of the section, at an offset within
\* [offset_within_region, offset_within_region + size); the bits of pages
\* outside the range are left as they were.
C24_LogSyncScope ==
    (last.op = "log_sync" /\ ~aborted) =>
        /\ \A p \in trace[1].obs :
              ~InSection(p, SectionTable[trace[1].idx]) =>
                  (p % VHOST_LOG_BITS) \in log[p \div VHOST_LOG_BITS + 1]
        /\ \A y \in At(trace, {"dirty"}) :
              /\ InSection((trace[y].obs[1] + trace[y].obs[2] * VHOST_LOG_PAGE)
                               \div VHOST_LOG_PAGE,
                           SectionTable[trace[1].idx])
              /\ trace[y].arg >= SectionTable[trace[1].idx].offset_within_region
              /\ trace[y].arg < SectionTable[trace[1].idx].offset_within_region
                                + SectionTable[trace[1].idx].size

\* C17: each set bit b of the log word that covers the guest addresses from
\* addr on, harvested for the intersection [s, e] of a section with a region
\* or a used ring, is reported as the page at
\* section.offset_within_region + (addr + b * PAGE - s), in every word of the
\* intersection.
C17_DirtyTranslation ==
    \A k \in 1 .. Len(trace) :
        trace[k].op = "dirty" =>
            trace[k].arg = SectionTable[trace[k].idx].offset_within_region
                           + (trace[k].obs[1] + trace[k].obs[2] * VHOST_LOG_PAGE
                              - trace[k].obs[3])
\* the log words that hold a byte of a region or of a used ring
CoveredWords(regions, q) ==
    {w \in 0 .. UINT64_MAX \div VHOST_LOG_CHUNK :
        \/ \E i \in 1 .. Len(regions) :
              /\ regions[i].guest_phys_addr \div VHOST_LOG_CHUNK <= w
              /\ w <= (regions[i].guest_phys_addr + regions[i].memory_size - 1)
                      \div VHOST_LOG_CHUNK
        \/ \E i \in 0 .. NVqs - 1 :
              /\ q[i].used_size > 0
              /\ q[i].used_phys \div VHOST_LOG_CHUNK <= w
              /\ w <= (q[i].used_phys + q[i].used_size - 1) \div VHOST_LOG_CHUNK}

IsCleanup(e) == e.op \in {"GetVringBase", "unmap"}

====
